---- MODULE Spec2Model ----
(***************************************************************************)
(* A model of homier/stablemap: the fixed-capacity swiss table behind      *)
(* StableMap and StableSet (table.go), its control-byte matchers, the      *)
(* hash splitter and the capacity planner.                                 *)
(*                                                                         *)
(* A 64-bit control word is a function from the lanes 0..7 to bytes        *)
(* 0..255, lane 0 being the least significant byte (the word is read from  *)
(* the ctrls array through an unsafe pointer on a little-endian target).   *)
(* A bitset has the same shape.                                            *)
(***************************************************************************)
EXTENDS Integers, Sequences, FiniteSets, TLC

\* ------------------------------------------------------------ constants

groupSize == 8

slotEmpty == 128

slotDeleted == 254

Lanes == 0 .. (groupSize - 1)

Byte == 0 .. 255

\* ------------------------------------------------------------ bytes, words

Bit(x, i) == (x \div (2 ^ i)) % 2

\* a & b and a ^ b on bytes, bit by bit, tabulated once
ByteAndTable ==
    [a \in Byte |-> [b \in Byte |->
        LET f(i) == Bit(a, i) * Bit(b, i) * (2 ^ i)
        IN  f(0) + f(1) + f(2) + f(3) + f(4) + f(5) + f(6) + f(7)]]

ByteXorTable ==
    [a \in Byte |-> [b \in Byte |->
        LET f(i) == ((Bit(a, i) + Bit(b, i)) % 2) * (2 ^ i)
        IN  f(0) + f(1) + f(2) + f(3) + f(4) + f(5) + f(6) + f(7)]]

ByteOrTable ==
    [a \in Byte |-> [b \in Byte |->
        LET f(i) == (Bit(a, i) + Bit(b, i) - Bit(a, i) * Bit(b, i)) * (2 ^ i)
        IN  f(0) + f(1) + f(2) + f(3) + f(4) + f(5) + f(6) + f(7)]]

ByteAnd(a, b) == ByteAndTable[a][b]

ByteOr(a, b) == ByteOrTable[a][b]

ByteXor(a, b) == ByteXorTable[a][b]

ByteNot(a) == 255 - a

\* x & y on non-negative integers
RECURSIVE IntAnd(_, _)
IntAnd(x, y) ==
    IF x = 0 \/ y = 0 THEN 0
    ELSE (x % 2) * (y % 2) + 2 * IntAnd(x \div 2, y \div 2)

ZeroWord == [i \in Lanes |-> 0]

\* the constant 0x0101010101010101
bitsetLSB == [i \in Lanes |-> 1]

\* the constant 0x8080808080808080
bitsetMSB == [i \in Lanes |-> 128]

\* x * c for a word x of equal small bytes and a byte c, without carries
\* between lanes (bitsetLSB * uint64(h2))
Broadcast(c) == [i \in Lanes |-> c]

WordAnd(a, b) == [i \in Lanes |-> ByteAnd(a[i], b[i])]

WordXor(a, b) == [i \in Lanes |-> ByteXor(a[i], b[i])]

WordNot(a) == [i \in Lanes |-> ByteNot(a[i])]

\* a | b
WordOr(a, b) == [i \in Lanes |-> ByteOr(a[i], b[i])]

\* a >> k on a 64-bit word, 0 <= k <= 7
WordShr(a, k) ==
    [i \in Lanes |->
        (a[i] \div (2 ^ k))
            + (((IF i = groupSize - 1 THEN 0 ELSE a[i + 1]) % (2 ^ k)) * (2 ^ (8 - k)))]

\* a &^ b
WordAndNot(a, b) == WordAnd(a, WordNot(b))

\* the borrow into lane i of the 64-bit subtraction a - b
RECURSIVE Borrow(_, _, _)
Borrow(a, b, i) ==
    IF i = 0 THEN 0
    ELSE IF a[i - 1] - b[i - 1] - Borrow(a, b, i - 1) < 0 THEN 1 ELSE 0

\* a - b modulo 2^64
WordSub(a, b) == [i \in Lanes |-> (a[i] - b[i] - Borrow(a, b, i) + 256) % 256]

\* a << 6 modulo 2^64
WordShl6(a) ==
    [i \in Lanes |->
        ((a[i] * 64) % 256) + (IF i = 0 THEN 0 ELSE a[i - 1] \div 4)]

\* trailing zero bits of a byte (8 for the zero byte)
RECURSIVE ByteTrailingZeros(_)
ByteTrailingZeros(b) ==
    IF b = 0 THEN 8
    ELSE IF b % 2 = 1 THEN 0
    ELSE 1 + ByteTrailingZeros(b \div 2)

\* bits.TrailingZeros64
RECURSIVE TrailingZerosFrom(_, _)
TrailingZerosFrom(w, i) ==
    IF i = groupSize THEN 0
    ELSE IF w[i] # 0 THEN ByteTrailingZeros(w[i])
    ELSE 8 + TrailingZerosFrom(w, i + 1)

TrailingZeros64(w) == TrailingZerosFrom(w, 0)

\* ------------------------------------------------------------ bitset

\* bitset.first: uintptr(bits.TrailingZeros64(uint64(b)) >> 3)
first(b) == TrailingZeros64(b) \div 8

\* a faulty removeFirst whose mask covers the lane above as well
removeFirstTwoLanes(b) ==
    LET sh   == 8 * (TrailingZeros64(b) \div 8)
        mask == [i \in Lanes |-> IF 8 * i = sh \/ 8 * i = sh + 8
                                  THEN slotEmpty ELSE 0]
    IN  WordAndNot(b, mask)

\* bitset.removeFirst:
\*   b & ^(bitset(slotEmpty) << (bits.TrailingZeros64(uint64(b)) & ^7))
\* a shift count of 64 (b = 0) shifts every bit out
removeFirst(b) ==
    LET sh   == 8 * (TrailingZeros64(b) \div 8)
        mask == [i \in Lanes |-> IF 8 * i = sh THEN slotEmpty ELSE 0]
    IN  WordAndNot(b, mask)

\* ------------------------------------------------------------ matchers

\* a faulty invertCtrls that spreads the high bit over the whole byte
invertCtrlsAllBits(ctrl) ==
    LET isFull     == WordAnd(WordNot(ctrl), bitsetMSB)
        fullResult == WordOr(isFull, WordOr(WordShr(isFull, 1), WordOr(WordShr(isFull, 2),
                      WordOr(WordShr(isFull, 3), WordOr(WordShr(isFull, 4),
                      WordOr(WordShr(isFull, 5), WordOr(WordShr(isFull, 6),
                                                        WordShr(isFull, 7))))))))
        highBits   == WordAnd(ctrl, bitsetMSB)
    IN  WordOr(fullResult, highBits)

\* invertCtrls:
\*   isFull := ^ctrl & bitsetMSB
\*   fullResult := isFull | (isFull >> 1) | ... | (isFull >> 6)
\*   highBits := ctrl & bitsetMSB
\*   return fullResult | highBits
invertCtrls(ctrl) ==
    LET isFull     == WordAnd(WordNot(ctrl), bitsetMSB)
        fullResult == WordOr(isFull, WordOr(WordShr(isFull, 1), WordOr(WordShr(isFull, 2),
                      WordOr(WordShr(isFull, 3), WordOr(WordShr(isFull, 4),
                      WordOr(WordShr(isFull, 5), WordShr(isFull, 6)))))))
        highBits   == WordAnd(ctrl, bitsetMSB)
    IN  WordOr(fullResult, highBits)

\* a faulty matchH2 without the &^ v
matchH2NoMask(group, h2) ==
    LET v == WordXor(group, Broadcast(h2))
    IN  WordAnd(WordSub(v, bitsetLSB), bitsetMSB)

matchH2(group, h2) ==
    LET v == WordXor(group, Broadcast(h2))
    IN  WordAnd(WordAndNot(WordSub(v, bitsetLSB), v), bitsetMSB)

\* a faulty matchEmpty without the &^ (group << 6)
matchEmptyAnyHigh(group) == WordAnd(group, bitsetMSB)

matchEmpty(group) == WordAnd(WordAndNot(group, WordShl6(group)), bitsetMSB)

\* a faulty matchEmptyOrDeleted that passes over the Deleted lanes
matchOnlyEmpty(group) == WordAnd(WordAndNot(group, WordShl6(group)), bitsetMSB)

matchEmptyOrDeleted(group) == WordAnd(group, bitsetMSB)

\* ------------------------------------------------------------ hash

\* a >> 7 on a 64-bit word
WordShr7(a) == WordShr(a, 7)

\* a faulty HashSplit that shifts the fingerprint's whole byte out
HashSplit64Shr8(hash) ==
    [h1 |-> [i \in Lanes |-> IF i = groupSize - 1 THEN 0 ELSE hash[i + 1]],
     h2 |-> ByteAnd(hash[0], 127)]

\* HashSplit on a hash given as a 64-bit word: h1 := uintptr(hash >> 7)
\* (uintptr has 64 bits), h2 := uint8(hash & 0x7F)
HashSplit64(hash) ==
    [h1 |-> WordShr7(hash), h2 |-> ByteAnd(hash[0], 127)]

\* HashSplit: h1 = hash >> 7, h2 = hash & 0x7F
HashSplit(hash) == [h1 |-> hash \div 128, h2 |-> IntAnd(hash, 127)]

\* the hash functions a table is built with (HashFunc[K], hash.go): a
\* deterministic map from keys to 64-bit values, named so that it can be
\* a field of the table
\*   "collision"  every key hashes to 0 (collisionHash of the tests)
\*   "mul31"      k * 31 (customHash of the tests)
\*   "ident"      k: one start group, fingerprints that differ in one bit
\*   "stride"     k * 1025: start group k, fingerprint k
\*   "spread"     keys 0..7 start in group 0, keys 8..16 in group 1;
\*                fingerprint k mod 4
\*   "crowd"      keys 0..8 start in group 0, keys 9..16 in group 1, so
\*                that the ninth key does not fit its start group;
\*                fingerprint k mod 4
\*   "slot"       h1 = k: in the flat StableSet key k starts at slot k;
\*                fingerprint k mod 4
Hash(hf, k) ==
    CASE hf = "collision" -> 0
      [] hf = "mul31"     -> k * 31
      [] hf = "ident"     -> k
      [] hf = "stride"    -> k * 1025
      [] hf = "spread"    -> 1024 * (IF k >= 8 /\ k <= 16 THEN 1 ELSE 0) + (k % 4)
      [] hf = "crowd"     -> 1024 * (IF k >= 9 /\ k <= 16 THEN 1 ELSE 0) + (k % 4)
      [] hf = "slot"      -> 128 * k + (k % 4)

\* ------------------------------------------------------------ capacity

\* bits.Len32: the number of bits needed to represent x
RECURSIVE Len32(_)
Len32(x) == IF x = 0 THEN 0 ELSE 1 + Len32(x \div 2)

Min(a, b) == IF a < b THEN a ELSE b

\* NextPowerOf2: uint32(1) << min(bits.Len32(v-1), 31), for 1 <= v <= 2^30
NextPowerOf2(v) == 2 ^ Min(Len32(v - 1), 31)

\* ------------------------------------------------------------ table

\* the zero value of the key type and of the value type (t.emptyV)
zeroK == 0

emptyV == 0

nil == "nil"

ErrTableFull == "ErrTableFull"

emptyCtrls == [j \in Lanes |-> slotEmpty]

\* a group as make([]group[K, V], n) leaves it
zeroGroup ==
    [ctrls  |-> [j \in Lanes |-> 0],
     slots  |-> [j \in Lanes |-> zeroK],
     values |-> [j \in Lanes |-> emptyV]]

NumGroups(t) == Cardinality(DOMAIN t.groups)

\* a faulty Reset that forgets the tombstone counter
tableResetKeepCount(t) ==
    [t EXCEPT !.groups = [i \in DOMAIN t.groups |->
                             [t.groups[i] EXCEPT !.ctrls = emptyCtrls]],
              !.size = 0]

\* table.Reset
tableReset(t) ==
    [t EXCEPT !.groups = [i \in DOMAIN t.groups |->
                             [t.groups[i] EXCEPT !.ctrls = emptyCtrls]],
              !.size = 0,
              !.tombstones = 0]

\* a faulty init that reserves no headroom: every slot may be filled
initFullLoad(capacity, hf) ==
    LET normalizedCapacity == NextPowerOf2(capacity)
        numGroups == normalizedCapacity \div groupSize
    IN  tableReset([groups            |-> [i \in 0 .. (numGroups - 1) |-> zeroGroup],
                    capacity          |-> normalizedCapacity,
                    numGroupsMask     |-> numGroups - 1,
                    capacityEffective |-> normalizedCapacity,
                    size              |-> 0,
                    tombstones        |-> 0,
                    hashFunc          |-> hf])

\* table.init followed by the options; the group mask of a table of
\* zero groups wraps to the largest uintptr, written -1
init(capacity, hf) ==
    LET normalizedCapacity == NextPowerOf2(capacity)
        numGroups == normalizedCapacity \div groupSize
    IN  tableReset([groups            |-> [i \in 0 .. (numGroups - 1) |-> zeroGroup],
                    capacity          |-> normalizedCapacity,
                    numGroupsMask     |-> numGroups - 1,
                    capacityEffective |-> (normalizedCapacity * 7) \div 8,
                    size              |-> 0,
                    tombstones        |-> 0,
                    hashFunc          |-> hf])

\* the start group of a key: (h1 / groupSize) & mask
startGroup(t, key) ==
    IntAnd(HashSplit(Hash(t.hashFunc, key)).h1 \div groupSize, t.numGroupsMask)

fingerprint(t, key) == HashSplit(Hash(t.hashFunc, key)).h2

\* a faulty probe step that adds the squares instead of the triangular
\* numbers
nextOffsetSquare(t, start, p) ==
    IntAnd(start + (p + 1) * (p + 1), t.numGroupsMask)

\* the quadratic probe step: (start + (p+1)*(p+2)/2) & mask
nextOffset(t, start, p) ==
    IntAnd(start + ((p + 1) * (p + 2)) \div 2, t.numGroupsMask)

\* a faulty matchKey that trusts the fingerprint and compares no key
matchKeyFirst(g, matches, key) ==
    IF matches = ZeroWord THEN groupSize ELSE first(matches)

\* the group the probe loops of get, put, set and delete read in iteration
\* p: start, then what the probe step left
probeOffset(t, start, p) ==
    IF p = 0 THEN start ELSE nextOffset(t, start, p - 1)

\* a faulty matchKey that compares the key of the first matching lane only
matchKeyOnce(g, matches, key) ==
    IF matches = ZeroWord THEN groupSize
    ELSE IF g.slots[first(matches)] = key THEN first(matches)
    ELSE groupSize

\* the loop over the lanes whose control byte matched the fingerprint:
\* the first of them (in first/removeFirst order) that holds the key, or
\* groupSize when none does
RECURSIVE matchKey(_, _, _)
matchKey(g, matches, key) ==
    IF matches = ZeroWord THEN groupSize
    ELSE LET idx == first(matches)
         IN  IF g.slots[idx] = key THEN idx
             ELSE matchKey(g, removeFirst(matches), key)

\* a faulty probe loop of get that runs one iteration too many
RECURSIVE getLoopOneMore(_, _, _, _, _, _)
getLoopOneMore(t, key, h2, start, p, offset) ==
    IF p > t.numGroupsMask + 1
    THEN [v |-> emptyV, ok |-> FALSE, probes |-> p]
    ELSE LET g    == t.groups[offset]
             ctrl == g.ctrls
             idx  == matchKey(g, matchH2(ctrl, h2), key)
         IN  IF idx < groupSize
             THEN [v |-> g.values[idx], ok |-> TRUE, probes |-> p + 1]
             ELSE IF matchEmpty(ctrl) # ZeroWord
             THEN [v |-> emptyV, ok |-> FALSE, probes |-> p + 1]
             ELSE getLoopOneMore(t, key, h2, start, p + 1, nextOffset(t, start, p))

\* table.get, the probe loop from iteration p on
RECURSIVE getLoop(_, _, _, _, _, _)
getLoop(t, key, h2, start, p, offset) ==
    IF p > t.numGroupsMask
    THEN [v |-> emptyV, ok |-> FALSE, probes |-> p]
    ELSE LET g    == t.groups[offset]
             ctrl == g.ctrls
             idx  == matchKey(g, matchH2(ctrl, h2), key)
         IN  IF idx < groupSize
             THEN [v |-> g.values[idx], ok |-> TRUE, probes |-> p + 1]
             ELSE IF matchEmpty(ctrl) # ZeroWord
             THEN [v |-> emptyV, ok |-> FALSE, probes |-> p + 1]
             ELSE getLoop(t, key, h2, start, p + 1, nextOffset(t, start, p))

\* table.get: the value and the found flag (and the number of groups read)
get(t, key) ==
    getLoop(t, key, fingerprint(t, key), startGroup(t, key), 0, startGroup(t, key))

\* the writes g.ctrls[j] = c, g.slots[j] = k, g.values[j] = v on group gi
setCtrl(groups, gi, j, c) == [groups EXCEPT ![gi].ctrls[j] = c]

setSlot(groups, gi, j, k) == [groups EXCEPT ![gi].slots[j] = k]

setValue(groups, gi, j, v) == [groups EXCEPT ![gi].values[j] = v]

\* a faulty putLoop that takes an Empty-or-Deleted lane below the lane of
\* the key for the proof that the key is absent
RECURSIVE putLoopLaneOrder(_, _, _, _, _, _, _, _, _)
putLoopLaneOrder(t, key, h2, start, p, offset, tg, ts, found) ==
    IF p > t.numGroupsMask
    THEN [existing |-> FALSE, eg |-> 0, ei |-> 0,
          tg |-> tg, ts |-> ts, found |-> found, probes |-> p]
    ELSE LET g     == t.groups[offset]
             ctrl  == g.ctrls
             avail == matchEmptyOrDeleted(ctrl)
             idx   == IF avail # ZeroWord
                           /\ first(avail) < matchKey(g, matchH2(ctrl, h2), key)
                      THEN groupSize
                      ELSE matchKey(g, matchH2(ctrl, h2), key)
             take  == ~found /\ avail # ZeroWord
             tg2   == IF take THEN offset ELSE tg
             ts2   == IF take THEN first(avail) ELSE ts
             f2    == found \/ take
         IN  IF idx < groupSize
             THEN [existing |-> TRUE, eg |-> offset, ei |-> idx,
                   tg |-> tg, ts |-> ts, found |-> found, probes |-> p + 1]
             ELSE IF matchEmpty(ctrl) # ZeroWord
             THEN [existing |-> FALSE, eg |-> 0, ei |-> 0,
                   tg |-> tg2, ts |-> ts2, found |-> f2, probes |-> p + 1]
             ELSE putLoopLaneOrder(t, key, h2, start, p + 1,
                                   nextOffset(t, start, p), tg2, ts2, f2)

\* a faulty putLoop that caches the last group with an Empty-or-Deleted
\* lane it read instead of the first
RECURSIVE putLoopLastAvail(_, _, _, _, _, _, _, _, _)
putLoopLastAvail(t, key, h2, start, p, offset, tg, ts, found) ==
    IF p > t.numGroupsMask
    THEN [existing |-> FALSE, eg |-> 0, ei |-> 0,
          tg |-> tg, ts |-> ts, found |-> found, probes |-> p]
    ELSE LET g     == t.groups[offset]
             ctrl  == g.ctrls
             idx   == matchKey(g, matchH2(ctrl, h2), key)
             avail == matchEmptyOrDeleted(ctrl)
             take  == avail # ZeroWord
             tg2   == IF take THEN offset ELSE tg
             ts2   == IF take THEN first(avail) ELSE ts
             f2    == found \/ take
         IN  IF idx < groupSize
             THEN [existing |-> TRUE, eg |-> offset, ei |-> idx,
                   tg |-> tg, ts |-> ts, found |-> found, probes |-> p + 1]
             ELSE IF matchEmpty(ctrl) # ZeroWord
             THEN [existing |-> FALSE, eg |-> 0, ei |-> 0,
                   tg |-> tg2, ts |-> ts2, found |-> f2, probes |-> p + 1]
             ELSE putLoopLastAvail(t, key, h2, start, p + 1,
                                   nextOffset(t, start, p), tg2, ts2, f2)


\* table.put, the probe loop from iteration p on. tg, ts, found are
\* targetGroup (as a group index), targetSlot and foundSlot. The result
\* tells whether the key was met (existing, in group eg at lane ei).
RECURSIVE putLoop(_, _, _, _, _, _, _, _, _)
putLoop(t, key, h2, start, p, offset, tg, ts, found) ==
    IF p > t.numGroupsMask
    THEN [existing |-> FALSE, eg |-> 0, ei |-> 0,
          tg |-> tg, ts |-> ts, found |-> found, probes |-> p]
    ELSE LET g     == t.groups[offset]
             ctrl  == g.ctrls
             idx   == matchKey(g, matchH2(ctrl, h2), key)
             avail == matchEmptyOrDeleted(ctrl)
             take  == ~found /\ avail # ZeroWord
             tg2   == IF take THEN offset ELSE tg
             ts2   == IF take THEN first(avail) ELSE ts
             f2    == found \/ take
         IN  IF idx < groupSize
             THEN [existing |-> TRUE, eg |-> offset, ei |-> idx,
                   tg |-> tg, ts |-> ts, found |-> found, probes |-> p + 1]
             ELSE IF matchEmpty(ctrl) # ZeroWord
             THEN [existing |-> FALSE, eg |-> 0, ei |-> 0,
                   tg |-> tg2, ts |-> ts2, found |-> f2, probes |-> p + 1]
             ELSE putLoop(t, key, h2, start, p + 1, nextOffset(t, start, p),
                          tg2, ts2, f2)

\* a faulty insertAt that keeps counting the tombstone it overwrites
insertAtKeepTombstone(t, tg, ts, h2, key, value) ==
    [t EXCEPT !.groups = setValue(setSlot(setCtrl(t.groups, tg, ts, h2),
                                          tg, ts, key), tg, ts, value),
              !.size = t.size + 1]

\* the insertion of a new key into the cached slot (table.go:162-173)
insertAt(t, tg, ts, h2, key, value) ==
    [t EXCEPT !.tombstones = IF t.groups[tg].ctrls[ts] = slotDeleted
                             THEN t.tombstones - 1 ELSE t.tombstones,
              !.groups = setValue(setSlot(setCtrl(t.groups, tg, ts, h2),
                                          tg, ts, key), tg, ts, value),
              !.size = t.size + 1]

\* a faulty put without the test of the size against the ceiling
putUnchecked(t, key, value) ==
    LET h2 == fingerprint(t, key)
        s  == startGroup(t, key)
        r  == putLoop(t, key, h2, s, 0, s, 0, 0, FALSE)
    IN  IF r.existing
        THEN [t |-> t, isNew |-> FALSE, err |-> nil, probes |-> r.probes]
        ELSE IF r.found
        THEN [t |-> insertAt(t, r.tg, r.ts, h2, key, value),
              isNew |-> TRUE, err |-> nil, probes |-> r.probes]
        ELSE [t |-> t, isNew |-> FALSE, err |-> ErrTableFull,
              probes |-> r.probes]

\* a faulty put that counts the entry before it tests the ceiling
putCountingFirst(t, key, value) ==
    IF t.size >= t.capacityEffective
    THEN [t |-> [t EXCEPT !.size = t.size + 1],
          isNew |-> FALSE, err |-> ErrTableFull, probes |-> 0]
    ELSE LET h2 == fingerprint(t, key)
             s  == startGroup(t, key)
             r  == putLoop(t, key, h2, s, 0, s, 0, 0, FALSE)
         IN  IF r.existing
             THEN [t |-> t, isNew |-> FALSE, err |-> nil, probes |-> r.probes]
             ELSE IF r.found
             THEN [t |-> insertAt(t, r.tg, r.ts, h2, key, value),
                   isNew |-> TRUE, err |-> nil, probes |-> r.probes]
             ELSE [t |-> t, isNew |-> FALSE, err |-> ErrTableFull,
                   probes |-> r.probes]

\* a faulty put that overwrites the value of a key it meets
putOverwriting(t, key, value) ==
    IF t.size >= t.capacityEffective
    THEN [t |-> t, isNew |-> FALSE, err |-> ErrTableFull, probes |-> 0]
    ELSE LET h2 == fingerprint(t, key)
             s  == startGroup(t, key)
             r  == putLoop(t, key, h2, s, 0, s, 0, 0, FALSE)
         IN  IF r.existing
             THEN [t |-> [t EXCEPT !.groups = setValue(t.groups, r.eg, r.ei, value)],
                   isNew |-> FALSE, err |-> nil, probes |-> r.probes]
             ELSE IF r.found
             THEN [t |-> insertAt(t, r.tg, r.ts, h2, key, value),
                   isNew |-> TRUE, err |-> nil, probes |-> r.probes]
             ELSE [t |-> t, isNew |-> FALSE, err |-> ErrTableFull,
                   probes |-> r.probes]

\* table.put: the table afterwards, isNew and the error
put(t, key, value) ==
    IF t.size >= t.capacityEffective
    THEN [t |-> t, isNew |-> FALSE, err |-> ErrTableFull, probes |-> 0]
    ELSE LET h2 == fingerprint(t, key)
             s  == startGroup(t, key)
             r  == putLoop(t, key, h2, s, 0, s, 0, 0, FALSE)
         IN  IF r.existing
             THEN [t |-> t, isNew |-> FALSE, err |-> nil, probes |-> r.probes]
             ELSE IF r.found
             THEN [t |-> insertAt(t, r.tg, r.ts, h2, key, value),
                   isNew |-> TRUE, err |-> nil, probes |-> r.probes]
             ELSE [t |-> t, isNew |-> FALSE, err |-> ErrTableFull,
                   probes |-> r.probes]

\* table.set, the probe loop from iteration p on (as putLoop)
RECURSIVE setLoop(_, _, _, _, _, _, _, _, _)
setLoop(t, key, h2, start, p, offset, tg, ts, found) ==
    IF p > t.numGroupsMask
    THEN [existing |-> FALSE, eg |-> 0, ei |-> 0,
          tg |-> tg, ts |-> ts, found |-> found, probes |-> p]
    ELSE LET g     == t.groups[offset]
             ctrl  == g.ctrls
             idx   == matchKey(g, matchH2(ctrl, h2), key)
             avail == matchEmptyOrDeleted(ctrl)
             take  == ~found /\ avail # ZeroWord
             tg2   == IF take THEN offset ELSE tg
             ts2   == IF take THEN first(avail) ELSE ts
             f2    == found \/ take
         IN  IF idx < groupSize
             THEN [existing |-> TRUE, eg |-> offset, ei |-> idx,
                   tg |-> tg, ts |-> ts, found |-> found, probes |-> p + 1]
             ELSE IF matchEmpty(ctrl) # ZeroWord
             THEN [existing |-> FALSE, eg |-> 0, ei |-> 0,
                   tg |-> tg2, ts |-> ts2, found |-> f2, probes |-> p + 1]
             ELSE setLoop(t, key, h2, start, p + 1, nextOffset(t, start, p),
                          tg2, ts2, f2)

\* a faulty set that leaves the value of a key it meets
setKeeping(t, key, value) ==
    IF t.size >= t.capacityEffective
    THEN [t |-> t, err |-> ErrTableFull, probes |-> 0]
    ELSE LET h2 == fingerprint(t, key)
             s  == startGroup(t, key)
             r  == setLoop(t, key, h2, s, 0, s, 0, 0, FALSE)
         IN  IF r.existing
             THEN [t |-> t, err |-> nil, probes |-> r.probes]
             ELSE IF r.found
             THEN [t |-> insertAt(t, r.tg, r.ts, h2, key, value),
                   err |-> nil, probes |-> r.probes]
             ELSE [t |-> t, err |-> ErrTableFull, probes |-> r.probes]

\* table.set: the table afterwards and the error
set(t, key, value) ==
    IF t.size >= t.capacityEffective
    THEN [t |-> t, err |-> ErrTableFull, probes |-> 0]
    ELSE LET h2 == fingerprint(t, key)
             s  == startGroup(t, key)
             r  == setLoop(t, key, h2, s, 0, s, 0, 0, FALSE)
         IN  IF r.existing
             THEN [t |-> [t EXCEPT !.groups = setValue(t.groups, r.eg, r.ei, value)],
                   err |-> nil, probes |-> r.probes]
             ELSE IF r.found
             THEN [t |-> insertAt(t, r.tg, r.ts, h2, key, value),
                   err |-> nil, probes |-> r.probes]
             ELSE [t |-> t, err |-> ErrTableFull, probes |-> r.probes]

\* table.delete, the probe loop from iteration p on
RECURSIVE deleteLoop(_, _, _, _, _, _)
deleteLoop(t, key, h2, start, p, offset) ==
    IF p > t.numGroupsMask
    THEN [t |-> t, ok |-> FALSE, probes |-> p]
    ELSE LET g    == t.groups[offset]
             ctrl == g.ctrls
             idx  == matchKey(g, matchH2(ctrl, h2), key)
         IN  IF idx < groupSize
             THEN [t |-> [t EXCEPT !.groups = setCtrl(t.groups, offset, idx, slotDeleted),
                                   !.size = t.size - 1,
                                   !.tombstones = t.tombstones + 1],
                   ok |-> TRUE, probes |-> p + 1]
             ELSE IF matchEmpty(ctrl) # ZeroWord
             THEN [t |-> t, ok |-> FALSE, probes |-> p + 1]
             ELSE deleteLoop(t, key, h2, start, p + 1, nextOffset(t, start, p))

\* a faulty delete that marks the slot Empty instead of Deleted
deleteEmptying(t, key) ==
    LET r == deleteLoop(t, key, fingerprint(t, key), startGroup(t, key), 0,
                        startGroup(t, key))
        emptied(i, j) == IF r.t.groups[i].ctrls[j] # t.groups[i].ctrls[j]
                         THEN slotEmpty ELSE t.groups[i].ctrls[j]
    IN  [r EXCEPT !.t.groups = [i \in DOMAIN t.groups |->
            [t.groups[i] EXCEPT !.ctrls = [j \in Lanes |-> emptied(i, j)]]]]

\* a faulty delete that does not count the tombstone it leaves
deleteUncounted(t, key) ==
    LET r == deleteLoop(t, key, fingerprint(t, key), startGroup(t, key), 0,
                        startGroup(t, key))
    IN  [r EXCEPT !.t.tombstones = t.tombstones]

\* a faulty delete that counts the entry down whether or not it met the key
deleteCountingMiss(t, key) ==
    LET r == deleteLoop(t, key, fingerprint(t, key), startGroup(t, key), 0,
                        startGroup(t, key))
    IN  IF r.ok THEN r ELSE [r EXCEPT !.t.size = t.size - 1]

\* table.delete: the table afterwards and the found flag
delete(t, key) ==
    deleteLoop(t, key, fingerprint(t, key), startGroup(t, key), 0, startGroup(t, key))

\* ------------------------------------------------------------ Compact

\* a faulty retag that leaves the tombstones marked Deleted
retagKeepDeleted(c) == IF c < 128 THEN slotDeleted ELSE c

\* phase 1 (table.go:315-325): FULL -> DELETED, DELETED -> EMPTY
retag(c) ==
    IF c < 128 THEN slotDeleted
    ELSE IF c = slotDeleted THEN slotEmpty
    ELSE c

compactPhase1(t) ==
    [t EXCEPT !.groups = [i \in DOMAIN t.groups |->
        [t.groups[i] EXCEPT !.ctrls = [j \in Lanes |-> retag(t.groups[i].ctrls[j])]]]]

\* a faulty relocation probe whose step is twice the probe count
RECURSIVE compactProbeEvenStep(_, _, _)
compactProbeEvenStep(t, p, currGIdx) ==
    LET m == matchEmptyOrDeleted(t.groups[currGIdx].ctrls)
    IN  IF m # ZeroWord
        THEN [tg |-> currGIdx, ts |-> first(m), p |-> p, hang |-> FALSE]
        ELSE IF p >= 2 * t.numGroupsMask + 1
        THEN [tg |-> 0, ts |-> 0, p |-> p, hang |-> TRUE]
        ELSE compactProbeEvenStep(t, p + 1,
                                  IntAnd(currGIdx + 2 * (p + 1), t.numGroupsMask))

\* a faulty step that adds p before it counts the step
compactProbeStepOldP(mask, p, currGIdx) ==
    [p |-> p + 1, currGIdx |-> IntAnd(currGIdx + p, mask)]

\* one step of the relocation probe: p++; currGIdx = (currGIdx + p) & mask
compactProbeStep(mask, p, currGIdx) ==
    [p |-> p + 1, currGIdx |-> IntAnd(currGIdx + p + 1, mask)]

\* a faulty relocation probe that adds p before it counts the step, and so
\* reads the first group twice
RECURSIVE compactProbeLateCount(_, _, _)
compactProbeLateCount(t, p, currGIdx) ==
    LET m == matchEmptyOrDeleted(t.groups[currGIdx].ctrls)
    IN  IF m # ZeroWord
        THEN [tg |-> currGIdx, ts |-> first(m), p |-> p, hang |-> FALSE]
        ELSE IF p >= 2 * t.numGroupsMask + 1
        THEN [tg |-> 0, ts |-> 0, p |-> p, hang |-> TRUE]
        ELSE compactProbeLateCount(t, p + 1, IntAnd(currGIdx + p, t.numGroupsMask))

\* the relocation probe (table.go:349-360), from step p at group currGIdx:
\* the first group with an Empty-or-Deleted lane and that lane. The loop
\* of the code has no bound; its index sequence covers every group within
\* numGroups steps and then repeats, so a probe that found nothing by then
\* never ends (hang).
RECURSIVE compactProbe(_, _, _)
compactProbe(t, p, currGIdx) ==
    LET m == matchEmptyOrDeleted(t.groups[currGIdx].ctrls)
    IN  IF m # ZeroWord
        THEN [tg |-> currGIdx, ts |-> first(m), p |-> p, hang |-> FALSE]
        ELSE IF p >= 2 * t.numGroupsMask + 1
        THEN [tg |-> 0, ts |-> 0, p |-> p, hang |-> TRUE]
        ELSE LET n == compactProbeStep(t.numGroupsMask, p, currGIdx)
             IN  compactProbe(t, n.p, n.currGIdx)

\* a uintptr is written as its signed reading: the largest uintptr is -1
uintptrLess(a, b) == a >= 0 /\ (b < 0 \/ a < b)

\* a faulty compactSlot that does not step back after a swap
compactSlotNoRetry(t, idx, j) ==
    LET g     == t.groups[idx]
        key   == g.slots[j]
        value == g.values[j]
        h2    == fingerprint(t, key)
        pr    == compactProbe(t, 0, startGroup(t, key))
        tg    == pr.tg
        ts    == pr.ts
        tgt   == t.groups[tg]
    IN  IF pr.hang
        THEN [groups |-> t.groups, j |-> j, kind |-> "hang", p |-> pr.p]
        ELSE IF tg = idx /\ ts = j
        THEN [groups |-> setCtrl(t.groups, idx, j, h2), j |-> j, kind |-> "inplace",
              p |-> pr.p]
        ELSE IF tgt.ctrls[ts] = slotEmpty
        THEN [groups |-> setCtrl(setValue(setSlot(setCtrl(t.groups, tg, ts, h2),
                                                   tg, ts, key), tg, ts, value),
                                 idx, j, slotEmpty),
              j |-> j, kind |-> "move", p |-> pr.p]
        ELSE [groups |-> setValue(setValue(
                            setSlot(setSlot(setCtrl(t.groups, tg, ts, h2),
                                            idx, j, tgt.slots[ts]),
                                    tg, ts, key),
                            idx, j, tgt.values[ts]), tg, ts, value),
              j |-> j, kind |-> "swap", p |-> pr.p]

\* a faulty compactSlot whose swap exchanges the keys and not the values
compactSlotSwapKeysOnly(t, idx, j) ==
    LET g     == t.groups[idx]
        key   == g.slots[j]
        value == g.values[j]
        h2    == fingerprint(t, key)
        pr    == compactProbe(t, 0, startGroup(t, key))
        tg    == pr.tg
        ts    == pr.ts
        tgt   == t.groups[tg]
    IN  IF pr.hang
        THEN [groups |-> t.groups, j |-> j, kind |-> "hang", p |-> pr.p]
        ELSE IF tg = idx /\ ts = j
        THEN [groups |-> setCtrl(t.groups, idx, j, h2), j |-> j, kind |-> "inplace",
              p |-> pr.p]
        ELSE IF tgt.ctrls[ts] = slotEmpty
        THEN [groups |-> setCtrl(setValue(setSlot(setCtrl(t.groups, tg, ts, h2),
                                                   tg, ts, key), tg, ts, value),
                                 idx, j, slotEmpty),
              j |-> j, kind |-> "move", p |-> pr.p]
        ELSE [groups |-> setSlot(setSlot(setCtrl(t.groups, tg, ts, h2),
                                         idx, j, tgt.slots[ts]),
                                 tg, ts, key),
              j |-> j - 1, kind |-> "swap", p |-> pr.p]

\* a faulty compactSlot that resolves every marked slot where it is
compactSlotInPlace(t, idx, j) ==
    [groups |-> setCtrl(t.groups, idx, j, fingerprint(t, t.groups[idx].slots[j])),
     j |-> j, kind |-> "inplace", p |-> 0]

\* a faulty compactSlot that, in a swap, tags the target with the
\* fingerprint of the key it took out of it
compactSlotTagAfterSwap(t, idx, j) ==
    LET g     == t.groups[idx]
        key   == g.slots[j]
        value == g.values[j]
        h2    == fingerprint(t, key)
        pr    == compactProbe(t, 0, startGroup(t, key))
        tg    == pr.tg
        ts    == pr.ts
        tgt   == t.groups[tg]
    IN  IF pr.hang
        THEN [groups |-> t.groups, j |-> j, kind |-> "hang", p |-> pr.p]
        ELSE IF tg = idx /\ ts = j
        THEN [groups |-> setCtrl(t.groups, idx, j, h2), j |-> j, kind |-> "inplace",
              p |-> pr.p]
        ELSE IF tgt.ctrls[ts] = slotEmpty
        THEN [groups |-> setCtrl(setValue(setSlot(setCtrl(t.groups, tg, ts, h2),
                                                   tg, ts, key), tg, ts, value),
                                 idx, j, slotEmpty),
              j |-> j, kind |-> "move", p |-> pr.p]
        ELSE [groups |-> setValue(setValue(
                            setSlot(setSlot(setCtrl(t.groups, tg, ts,
                                                    fingerprint(t, tgt.slots[ts])),
                                            idx, j, tgt.slots[ts]),
                                    tg, ts, key),
                            idx, j, tgt.values[ts]), tg, ts, value),
              j |-> j - 1, kind |-> "swap", p |-> pr.p]

\* the body of the phase 2 loop for the slot (idx, j), which carries the
\* marker (table.go:335-382): the groups afterwards, the lane index j as
\* the body leaves it (j - 1, wrapping, after a swap), the kind of step and
\* the value of p when the relocation probe ended
compactSlot(t, idx, j) ==
    LET g     == t.groups[idx]
        key   == g.slots[j]
        value == g.values[j]
        h2    == fingerprint(t, key)
        pr    == compactProbe(t, 0, startGroup(t, key))
        tg    == pr.tg
        ts    == pr.ts
        tgt   == t.groups[tg]
    IN  IF pr.hang
        THEN [groups |-> t.groups, j |-> j, kind |-> "hang", p |-> pr.p]
        ELSE IF tg = idx /\ ts = j
        THEN [groups |-> setCtrl(t.groups, idx, j, h2), j |-> j, kind |-> "inplace",
              p |-> pr.p]
        ELSE IF tgt.ctrls[ts] = slotEmpty
        THEN [groups |-> setCtrl(setValue(setSlot(setCtrl(t.groups, tg, ts, h2),
                                                   tg, ts, key), tg, ts, value),
                                 idx, j, slotEmpty),
              j |-> j, kind |-> "move", p |-> pr.p]
        ELSE [groups |-> setValue(setValue(
                            setSlot(setSlot(setCtrl(t.groups, tg, ts, h2),
                                            idx, j, tgt.slots[ts]),
                                    tg, ts, key),
                            idx, j, tgt.values[ts]), tg, ts, value),
              j |-> j - 1, kind |-> "swap", p |-> pr.p]

\* phase 2 (table.go:327-384) from the slot (idx, j) on: the table when the
\* loops end, whether a relocation probe hangs, the number of swaps, and
\* the largest number of groups one relocation probe read (probes)
RECURSIVE compactPhase2(_, _, _, _, _)
compactPhase2(t, idx, j, swaps, probes) ==
    IF idx >= NumGroups(t)
    THEN [t |-> t, hang |-> FALSE, swaps |-> swaps, probes |-> probes]
    ELSE IF ~uintptrLess(j, groupSize)
    THEN compactPhase2(t, idx + 1, 0, swaps, probes)
    ELSE IF t.groups[idx].ctrls[j] # slotDeleted
    THEN compactPhase2(t, idx, j + 1, swaps, probes)
    ELSE LET r == compactSlot(t, idx, j)
         IN  IF r.kind = "hang"
             THEN [t |-> t, hang |-> TRUE, swaps |-> swaps, probes |-> r.p + 1]
             ELSE compactPhase2([t EXCEPT !.groups = r.groups], idx, r.j + 1,
                                IF r.kind = "swap" THEN swaps + 1 ELSE swaps,
                                IF r.p + 1 > probes THEN r.p + 1 ELSE probes)

\* table.Compact
tableCompact(t) ==
    LET r == compactPhase2(compactPhase1(t), 0, 0, 0, 0)
    IN  [t |-> [r.t EXCEPT !.tombstones = 0], hang |-> r.hang, swaps |-> r.swaps,
         probes |-> r.probes]

\* Compact, write by write. A write is <<field, group, lane, byte or key or
\* value>>; applyWrite stores it.
applyWrite(groups, w) ==
    CASE w[1] = "ctrl"  -> setCtrl(groups, w[2], w[3], w[4])
      [] w[1] = "slot"  -> setSlot(groups, w[2], w[3], w[4])
      [] w[1] = "value" -> setValue(groups, w[2], w[3], w[4])

\* a faulty move that does not carry the value along
compactWritesNoValue(t, idx, j) ==
    LET g     == t.groups[idx]
        key   == g.slots[j]
        value == g.values[j]
        h2    == fingerprint(t, key)
        pr    == compactProbe(t, 0, startGroup(t, key))
        tg    == pr.tg
        ts    == pr.ts
        tgt   == t.groups[tg]
    IN  IF pr.hang
        THEN [writes |-> <<>>, j |-> j, hang |-> TRUE]
        ELSE IF tg = idx /\ ts = j
        THEN [writes |-> << <<"ctrl", idx, j, h2>> >>, j |-> j, hang |-> FALSE]
        ELSE IF tgt.ctrls[ts] = slotEmpty
        THEN [writes |-> << <<"ctrl", tg, ts, h2>>, <<"slot", tg, ts, key>>,
                            <<"ctrl", idx, j, slotEmpty>> >>,
              j |-> j, hang |-> FALSE]
        ELSE [writes |-> << <<"ctrl", tg, ts, h2>>,
                            <<"slot", idx, j, tgt.slots[ts]>>,
                            <<"slot", tg, ts, key>>,
                            <<"value", idx, j, tgt.values[ts]>>,
                            <<"value", tg, ts, value>> >>,
              j |-> j - 1, hang |-> FALSE]

\* a faulty move that leaves the marker on the slot it moved the entry from
compactWritesKeepSource(t, idx, j) ==
    LET g     == t.groups[idx]
        key   == g.slots[j]
        value == g.values[j]
        h2    == fingerprint(t, key)
        pr    == compactProbe(t, 0, startGroup(t, key))
        tg    == pr.tg
        ts    == pr.ts
        tgt   == t.groups[tg]
    IN  IF pr.hang
        THEN [writes |-> <<>>, j |-> j, hang |-> TRUE]
        ELSE IF tg = idx /\ ts = j
        THEN [writes |-> << <<"ctrl", idx, j, h2>> >>, j |-> j, hang |-> FALSE]
        ELSE IF tgt.ctrls[ts] = slotEmpty
        THEN [writes |-> << <<"ctrl", tg, ts, h2>>, <<"slot", tg, ts, key>>,
                            <<"value", tg, ts, value>> >>,
              j |-> j, hang |-> FALSE]
        ELSE [writes |-> << <<"ctrl", tg, ts, h2>>,
                            <<"slot", idx, j, tgt.slots[ts]>>,
                            <<"slot", tg, ts, key>>,
                            <<"value", idx, j, tgt.values[ts]>>,
                            <<"value", tg, ts, value>> >>,
              j |-> j - 1, hang |-> FALSE]

\* a faulty body that does not step back after a swap
compactWritesNoRetry(t, idx, j) ==
    LET g     == t.groups[idx]
        key   == g.slots[j]
        value == g.values[j]
        h2    == fingerprint(t, key)
        pr    == compactProbe(t, 0, startGroup(t, key))
        tg    == pr.tg
        ts    == pr.ts
        tgt   == t.groups[tg]
    IN  IF pr.hang
        THEN [writes |-> <<>>, j |-> j, hang |-> TRUE]
        ELSE IF tg = idx /\ ts = j
        THEN [writes |-> << <<"ctrl", idx, j, h2>> >>, j |-> j, hang |-> FALSE]
        ELSE IF tgt.ctrls[ts] = slotEmpty
        THEN [writes |-> << <<"ctrl", tg, ts, h2>>, <<"slot", tg, ts, key>>,
                            <<"value", tg, ts, value>>,
                            <<"ctrl", idx, j, slotEmpty>> >>,
              j |-> j, hang |-> FALSE]
        ELSE [writes |-> << <<"ctrl", tg, ts, h2>>,
                            <<"slot", idx, j, tgt.slots[ts]>>,
                            <<"slot", tg, ts, key>>,
                            <<"value", idx, j, tgt.values[ts]>>,
                            <<"value", tg, ts, value>> >>,
              j |-> j, hang |-> FALSE]

\* the writes of the body of the phase 2 loop for the slot (idx, j), which
\* carries the marker, in the order of the code (table.go:364-382), and the
\* lane index j as the body leaves it. The two-sided assignments of the
\* swap read both sides and then store left to right.
compactWrites(t, idx, j) ==
    LET g     == t.groups[idx]
        key   == g.slots[j]
        value == g.values[j]
        h2    == fingerprint(t, key)
        pr    == compactProbe(t, 0, startGroup(t, key))
        tg    == pr.tg
        ts    == pr.ts
        tgt   == t.groups[tg]
    IN  IF pr.hang
        THEN [writes |-> <<>>, j |-> j, hang |-> TRUE]
        ELSE IF tg = idx /\ ts = j
        THEN [writes |-> << <<"ctrl", idx, j, h2>> >>, j |-> j, hang |-> FALSE]
        ELSE IF tgt.ctrls[ts] = slotEmpty
        THEN [writes |-> << <<"ctrl", tg, ts, h2>>, <<"slot", tg, ts, key>>,
                            <<"value", tg, ts, value>>,
                            <<"ctrl", idx, j, slotEmpty>> >>,
              j |-> j, hang |-> FALSE]
        ELSE [writes |-> << <<"ctrl", tg, ts, h2>>,
                            <<"slot", idx, j, tgt.slots[ts]>>,
                            <<"slot", tg, ts, key>>,
                            <<"value", idx, j, tgt.values[ts]>>,
                            <<"value", tg, ts, value>> >>,
              j |-> j - 1, hang |-> FALSE]

\* the slot the phase 2 loops reach next from (idx, j) whose control byte is
\* the marker (table.go:327-333); idx = len(t.groups) when the loops end
RECURSIVE nextMarked(_, _, _)
nextMarked(t, idx, j) ==
    IF idx >= NumGroups(t) THEN [idx |-> idx, j |-> 0]
    ELSE IF ~uintptrLess(j, groupSize) THEN nextMarked(t, idx + 1, 0)
    ELSE IF t.groups[idx].ctrls[j] # slotDeleted THEN nextMarked(t, idx, j + 1)
    ELSE [idx |-> idx, j |-> j]

\* ------------------------------------------------------------ callers

\* The caller's map m holds <<v>> for a key it stored v for and absent for
\* a key it holds no value for.
absent == <<>>

\* the fill loop of the tests (table_test.go:50-54), for the keys a .. b-1:
\*   for i := a; i < b; i++ { ok, err := put(i, i); require.True(ok);
\*                            require.NoError(err) }
\* It ends at the first put that fails. m is the caller's map, n counts
\* the puts that returned (true, nil).
RECURSIVE putRange(_, _, _, _, _)
putRange(t, m, i, b, n) ==
    IF i >= b
    THEN [t |-> t, m |-> m, n |-> n, isNew |-> TRUE, err |-> nil]
    ELSE LET r == put(t, i, i)
         IN  IF r.isNew /\ r.err = nil
             THEN putRange(r.t, [m EXCEPT ![i] = <<i>>], i + 1, b, n + 1)
             ELSE [t |-> r.t, m |-> m, n |-> n, isNew |-> r.isNew, err |-> r.err]

\* the fill loop of the map tests (map.go:180-183), for the keys a .. b-1:
\*   for i := a; i < b; i++ { err := sm.Set(i, i); require.NoError(err) }
RECURSIVE setRange(_, _, _, _, _)
setRange(t, m, i, b, n) ==
    IF i >= b
    THEN [t |-> t, m |-> m, n |-> n, err |-> nil]
    ELSE LET r == set(t, i, i)
         IN  IF r.err = nil
             THEN setRange(r.t, [m EXCEPT ![i] = <<i>>], i + 1, b, n + 1)
             ELSE [t |-> r.t, m |-> m, n |-> n, err |-> r.err]

\* the delete loop of the tests (table_test.go:121-123), for the keys
\* a .. b-1:   for i := a; i < b; i++ { require.True(delete(i)) }
RECURSIVE deleteRange(_, _, _, _, _)
deleteRange(t, m, i, b, n) ==
    IF i >= b
    THEN [t |-> t, m |-> m, n |-> n, ok |-> TRUE]
    ELSE LET r == delete(t, i)
         IN  IF r.ok
             THEN deleteRange(r.t, [m EXCEPT ![i] = absent], i + 1, b, n + 1)
             ELSE [t |-> r.t, m |-> [m EXCEPT ![i] = absent], n |-> n, ok |-> FALSE]

\* ------------------------------------------------------------ flat StableSet

\* the StableSet of src/unnamed/part_003: one array of control bytes, whose
\* first groupSize bytes are mirrored behind its end, and one array of keys

\* New (part_003:45-72)
ssNew(capacity, hf) ==
    LET normalizedCapacity == NextPowerOf2(capacity)
    IN  [ctrls             |-> [i \in 0 .. (normalizedCapacity + groupSize - 1) |-> slotEmpty],
         slots             |-> [i \in 0 .. (normalizedCapacity - 1) |-> zeroK],
         capacity          |-> normalizedCapacity,
         capacityMask      |-> normalizedCapacity - 1,
         capacityEffective |-> (normalizedCapacity * 7) \div 8,
         size              |-> 0,
         hashFunc          |-> hf]

\* group := *(*uint64)(unsafe.Pointer(&ss.ctrls[offset]))
ssGroup(s, offset) == [i \in Lanes |-> s.ctrls[offset + i]]

\* the keys the lanes of that group stand for: ss.slots[(offset+idx) & mask]
ssSlots(s, offset) ==
    [slots |-> [i \in Lanes |-> s.slots[IntAnd(offset + i, s.capacityMask)]]]

\* setCtrl (part_003:315-320): the write and its mirror
ssSetCtrl(s, i, val) ==
    [s EXCEPT !.ctrls = [x \in DOMAIN s.ctrls |->
        IF x = i \/ (i < groupSize /\ x = s.capacity + i) THEN val
        ELSE s.ctrls[x]]]

\* the probe loop of Put (part_003:132-158) in iteration `probe` at
\* `offset`. The loop has no bound: it ends at a group that holds the key
\* or an Empty byte. Its offsets repeat after 2 * capacity / groupSize
\* iterations, so a loop that has not ended by then never ends (hang).
RECURSIVE ssPutLoop(_, _, _, _, _, _, _)
ssPutLoop(s, key, h2, probe, offset, slotAvailable, slotAvailableIdx) ==
    LET group == ssGroup(s, offset)
        avail == matchEmptyOrDeleted(group)
        take  == ~slotAvailable /\ avail # ZeroWord
        sa2   == slotAvailable \/ take
        idx2  == IF take THEN IntAnd(offset + first(avail), s.capacityMask)
                         ELSE slotAvailableIdx
    IN  IF matchKey(ssSlots(s, offset), matchH2(group, h2), key) < groupSize
        THEN [existing |-> TRUE, slotAvailable |-> sa2, slotAvailableIdx |-> idx2,
              probe |-> probe, hang |-> FALSE]
        ELSE IF matchEmpty(group) # ZeroWord
        THEN [existing |-> FALSE, slotAvailable |-> sa2, slotAvailableIdx |-> idx2,
              probe |-> probe, hang |-> FALSE]
        ELSE IF probe + 1 >= 2 * (s.capacity \div groupSize)
        THEN [existing |-> FALSE, slotAvailable |-> sa2, slotAvailableIdx |-> idx2,
              probe |-> probe + 1, hang |-> TRUE]
        ELSE ssPutLoop(s, key, h2, probe + 1,
                       IntAnd(offset + (probe + 1) * groupSize, s.capacityMask),
                       sa2, idx2)

\* StableSet.Put (part_003:116-174): (ok, rehash), the number of probe
\* steps it made, and whether it fails to return
ssPut(s, key) ==
    IF s.size >= s.capacityEffective
    THEN [s |-> s, ok |-> FALSE, rehash |-> TRUE, probe |-> 0, hang |-> FALSE]
    ELSE LET h == HashSplit(Hash(s.hashFunc, key))
             r == ssPutLoop(s, key, h.h2, 0, IntAnd(h.h1, s.capacityMask), FALSE, 0)
         IN  IF r.hang
             THEN [s |-> s, ok |-> FALSE, rehash |-> FALSE, probe |-> r.probe,
                   hang |-> TRUE]
             ELSE IF r.existing
             THEN [s |-> s, ok |-> FALSE, rehash |-> FALSE, probe |-> r.probe,
                   hang |-> FALSE]
             ELSE IF r.slotAvailable
             THEN [s |-> [ssSetCtrl(s, r.slotAvailableIdx, h.h2)
                             EXCEPT !.slots[r.slotAvailableIdx] = key,
                                    !.size = s.size + 1],
                   ok |-> TRUE, rehash |-> FALSE, probe |-> r.probe, hang |-> FALSE]
             ELSE [s |-> s, ok |-> FALSE, rehash |-> TRUE, probe |-> r.probe,
                   hang |-> FALSE]

\* the probe loop of Delete (part_003:180-212), which ends after
\* capacity / groupSize probe steps at the latest
RECURSIVE ssDeleteLoop(_, _, _, _, _)
ssDeleteLoop(s, key, h2, probe, offset) ==
    LET group == ssGroup(s, offset)
        idx   == matchKey(ssSlots(s, offset), matchH2(group, h2), key)
    IN  IF idx < groupSize
        THEN [s |-> [ssSetCtrl(s, IntAnd(offset + idx, s.capacityMask), slotDeleted)
                        EXCEPT !.size = s.size - 1],
              ok |-> TRUE]
        ELSE IF matchEmpty(group) # ZeroWord
        THEN [s |-> s, ok |-> FALSE]
        ELSE IF probe + 1 >= s.capacity \div groupSize
        THEN [s |-> s, ok |-> FALSE]
        ELSE ssDeleteLoop(s, key, h2, probe + 1,
                          IntAnd(offset + (probe + 1) * groupSize, s.capacityMask))

\* StableSet.Delete (part_003:176-215)
ssDelete(s, key) ==
    LET h == HashSplit(Hash(s.hashFunc, key))
    IN  ssDeleteLoop(s, key, h.h2, 0, IntAnd(h.h1, s.capacityMask))

\* the fill loop of the set tests (set_test.go:38-42) for the keys a .. b-1;
\* it ends at the first Put that does not return (true, false)
RECURSIVE ssPutRange(_, _, _)
ssPutRange(s, i, b) ==
    IF i >= b
    THEN [s |-> s, ok |-> TRUE, hang |-> FALSE]
    ELSE LET r == ssPut(s, i)
         IN  IF r.ok /\ ~r.hang
             THEN ssPutRange(r.s, i + 1, b)
             ELSE [s |-> r.s, ok |-> FALSE, hang |-> r.hang]

\* ------------------------------------------------------------ state

VARIABLES
    groups,             \* t.groups: ctrls, slots and values of every group
    capacity,           \* t.capacity
    numGroupsMask,      \* t.numGroupsMask
    capacityEffective,  \* t.capacityEffective
    size,               \* t.size
    tombstones,         \* t.tombstones
    hashFunc,           \* t.hashFunc
    model,              \* the caller's map: key -> <<value>>, or absent
    last,               \* the last call, its arguments and what it returned
    budget,             \* the number of calls the caller may still make
    compacting,         \* where a Compact that runs next to a reader stands
    ss,                 \* the flat StableSet (part_003), used by SpecFlat
    twin                \* a second table under another hash function, and
                        \* what its last call returned (SpecTwin)

vars == <<groups, capacity, numGroupsMask, capacityEffective, size, tombstones,
          hashFunc, model, last, budget, compacting, ss, twin>>

\* the table the variables hold
T ==
    [groups            |-> groups,
     capacity          |-> capacity,
     numGroupsMask     |-> numGroupsMask,
     capacityEffective |-> capacityEffective,
     size              |-> size,
     tombstones        |-> tombstones,
     hashFunc          |-> hashFunc]

\* ------------------------------------------------------------ bounds

\* Spec: every sequence of at most MaxOps single calls with keys from Keys
\* and values from Values, on a table built from one of Configs
MaxOps == 4

Keys == {0, 1, 2}

Values == {1, 2}

Configs == {<<8, "collision">>, <<8, "ident">>, <<16, "stride">>}

\* SpecFill: at most MaxFillOps calls, each a loop of the tests over a
\* range of keys, a single call with a key from FillKeys, Compact or Reset.
\* A table of one group is full with the keys 0..6. Under "spread" a table
\* of two groups takes 0..7 in group 0 and 8..13 in group 1 and is full;
\* once keys of group 0 are deleted, 14 and 15 fill group 1 and 16, which
\* starts in group 1, goes to a tombstone of group 0.
MaxFillOps == 4

FillKeys == {0, 15, 16}

PutRanges == {<<0, 14>>, <<0, 15>>, <<14, 16>>, <<14, 17>>}

SetRanges == {<<0, 15>>}

DeleteRanges == {<<0, 3>>}

FillConfigs == {<<8, "ident">>, <<16, "spread">>}

AllKeys == 0 .. 16

noCall ==
    [op |-> "init", key |-> 0, value |-> 0, ok |-> FALSE, v |-> 0,
     isNew |-> FALSE, err |-> nil, before |-> 0, tombs |-> 0, n |-> 0,
     word |-> ZeroWord, bits |-> ZeroWord, probes |-> 0, lanes |-> <<>>]

\* ------------------------------------------------------------ actions

\* no Compact is running; otherwise pc is "retag" (phase 1 at the slot
\* (idx, j)), "scan" (phase 2, the loops at the slot (idx, j)), "write" (in
\* the body for the slot (idx, j) and its key `key`, the writes `writes`
\* still to do, `after` the value of j as the body leaves it) or "end" (the
\* loops ended, tombstones not yet cleared)
idleCompact ==
    [pc |-> "idle", idx |-> 0, j |-> 0, writes |-> <<>>, key |-> zeroK,
     after |-> 0]

\* a call that ran alone stores the table it leaves
store(t) ==
    /\ groups' = t.groups
    /\ size' = t.size
    /\ tombstones' = t.tombstones
    /\ UNCHANGED <<capacity, numGroupsMask, capacityEffective, hashFunc,
                   compacting, ss, twin>>

\* every call takes one unit of the budget
called ==
    /\ budget > 0
    /\ budget' = budget - 1

\* no second table stands next to the first one
noTwin ==
    [t   |-> <<>>,
     ret |-> [ok |-> FALSE, v |-> 0, isNew |-> FALSE, err |-> nil, hang |-> FALSE]]

\* construction: New / NewSet (init with a capacity hint and WithHashFunc)
\* of the table t, next to the flat StableSet s and the second table tw
constructedWith(t, calls, s, tw) ==
    /\ groups = t.groups
    /\ capacity = t.capacity
    /\ numGroupsMask = t.numGroupsMask
    /\ capacityEffective = t.capacityEffective
    /\ size = t.size
    /\ tombstones = t.tombstones
    /\ hashFunc = t.hashFunc
    /\ model = [k \in AllKeys |-> absent]
    /\ last = noCall
    /\ budget = calls
    /\ compacting = idleCompact
    /\ ss = s
    /\ twin = tw

constructed(t, calls) ==
    constructedWith(t, calls, ssNew(groupSize, t.hashFunc), noTwin)

Init == \E c \in Configs : constructed(init(c[1], c[2]), MaxOps)

InitFill == \E c \in FillConfigs : constructed(init(c[1], c[2]), MaxFillOps)

\* Each call is an action; the second definition of a pair takes what the
\* method returned and stores it.

\* a faulty Get that takes the entry it finds out of the table
GetReturnsTaking(k, r) ==
    /\ called
    /\ store(delete(T, k).t)
    /\ UNCHANGED model
    /\ last' = [noCall EXCEPT !.op = "get", !.key = k, !.ok = r.ok, !.v = r.v]

\* StableMap.Get / StableSet.Has
GetReturns(k, r) ==
    /\ called
    /\ store(T)
    /\ UNCHANGED model
    /\ last' = [noCall EXCEPT !.op = "get", !.key = k, !.ok = r.ok, !.v = r.v]

Get(k) == GetReturns(k, get(T, k))

\* StableMap.Set
SetReturns(k, v, r) ==
    /\ called
    /\ store(r.t)
    /\ model' = IF r.err = nil THEN [model EXCEPT ![k] = <<v>>] ELSE model
    /\ last' = [noCall EXCEPT !.op = "set", !.key = k, !.value = v,
                              !.err = r.err, !.before = size,
                              !.tombs = tombstones]

Set(k, v) == SetReturns(k, v, set(T, k, v))

\* StableSet.Put (and table.put under a map)
PutReturns(k, v, r) ==
    /\ called
    /\ store(r.t)
    /\ model' = IF r.isNew THEN [model EXCEPT ![k] = <<v>>] ELSE model
    /\ last' = [noCall EXCEPT !.op = "put", !.key = k, !.value = v,
                              !.isNew = r.isNew, !.err = r.err,
                              !.before = size, !.tombs = tombstones]

Put(k, v) == PutReturns(k, v, put(T, k, v))

\* StableMap.Delete / StableSet.Delete
DeleteReturns(k, r) ==
    /\ called
    /\ store(r.t)
    /\ model' = [model EXCEPT ![k] = absent]
    /\ last' = [noCall EXCEPT !.op = "delete", !.key = k, !.ok = r.ok,
                              !.before = size, !.tombs = tombstones]

Delete(k) == DeleteReturns(k, delete(T, k))

\* table.Compact; a Compact whose relocation probe never ends does not return
CompactReturns(r) ==
    /\ called
    /\ ~r.hang
    /\ store(r.t)
    /\ UNCHANGED model
    /\ last' = [noCall EXCEPT !.op = "compact", !.before = size,
                              !.tombs = tombstones, !.n = r.swaps,
                              !.probes = r.probes]

Compact == CompactReturns(tableCompact(T))

\* table.Reset
Reset ==
    /\ called
    /\ store(tableReset(T))
    /\ model' = [k \in AllKeys |-> absent]
    /\ last' = [noCall EXCEPT !.op = "reset"]

\* the fill loop of the tests over the keys a .. b-1
PutFillReturns(a, b, r) ==
    /\ called
    /\ store(r.t)
    /\ model' = r.m
    /\ last' = [noCall EXCEPT !.op = "putfill", !.key = a, !.value = b,
                              !.isNew = r.isNew, !.err = r.err,
                              !.before = size, !.n = r.n]

PutFill(a, b) == PutFillReturns(a, b, putRange(T, model, a, b, 0))

\* the fill loop of the map tests over the keys a .. b-1
SetFillReturns(a, b, r) ==
    /\ called
    /\ store(r.t)
    /\ model' = r.m
    /\ last' = [noCall EXCEPT !.op = "setfill", !.key = a, !.value = b,
                              !.err = r.err, !.before = size, !.n = r.n]

SetFill(a, b) == SetFillReturns(a, b, setRange(T, model, a, b, 0))

\* the delete loop of the tests over the keys a .. b-1
DeleteFillReturns(a, b, r) ==
    /\ called
    /\ store(r.t)
    /\ model' = r.m
    /\ last' = [noCall EXCEPT !.op = "deletefill", !.key = a, !.value = b,
                              !.ok = r.ok, !.before = size, !.n = r.n]

DeleteFill(a, b) == DeleteFillReturns(a, b, deleteRange(T, model, a, b, 0))

Next ==
    \/ \E k \in Keys : Get(k)
    \/ \E k \in Keys, v \in Values : Set(k, v)
    \/ \E k \in Keys, v \in Values : Put(k, v)
    \/ \E k \in Keys : Delete(k)
    \/ Compact
    \/ Reset

Spec == Init /\ [][Next]_vars

NextFill ==
    \/ \E r \in PutRanges : PutFill(r[1], r[2])
    \/ \E r \in SetRanges : SetFill(r[1], r[2])
    \/ \E r \in DeleteRanges : DeleteFill(r[1], r[2])
    \/ \E k \in FillKeys : Get(k)
    \/ \E k \in FillKeys : Set(k, 1)
    \/ \E k \in FillKeys : Put(k, 1)
    \/ \E k \in FillKeys : Delete(k)
    \/ Compact
    \/ Reset

SpecFill == InitFill /\ [][NextFill]_vars

\* SpecChain: the calls of SpecFill on a table of two groups whose hash
\* sends nine keys to group 0: the fill loop itself stores key 8 in the
\* second group of its probe sequence.
ChainConfigs == {<<16, "crowd">>}

InitChain == \E c \in ChainConfigs : constructed(init(c[1], c[2]), MaxFillOps)

SpecChain == InitChain /\ [][NextFill]_vars

\* SpecPure: one call of a function of the package on each of its inputs:
\* the construction from every capacity hint of Hints, and matchH2 on every
\* control word of CtrlWords with every fingerprint of Fingerprints.
MaxHint == 128

Hints == (1 .. MaxHint) \cup {4096}

\* control bytes: Empty, Deleted, and fingerprints that differ in one bit
CtrlBytes == {slotEmpty, slotDeleted, 0, 1, 127}

Fingerprints == {0, 1, 126}

\* the control words whose first MatchLanes lanes are any of CtrlBytes and
\* whose other lanes are Empty
MatchLanes == 4

CtrlWords ==
    {[i \in Lanes |-> IF i < MatchLanes THEN w[i] ELSE slotEmpty] :
        w \in [0 .. (MatchLanes - 1) -> CtrlBytes]}

InitPure == constructed(init(groupSize, "ident"), 1)

\* New / NewSet with the capacity hint h: a new table takes the place of
\* the old one
NewReturns(h, t) ==
    /\ called
    /\ groups' = t.groups
    /\ capacity' = t.capacity
    /\ numGroupsMask' = t.numGroupsMask
    /\ capacityEffective' = t.capacityEffective
    /\ size' = t.size
    /\ tombstones' = t.tombstones
    /\ hashFunc' = t.hashFunc
    /\ model' = [k \in AllKeys |-> absent]
    /\ last' = [noCall EXCEPT !.op = "new", !.n = h]
    /\ UNCHANGED <<compacting, ss, twin>>

New(h) == NewReturns(h, init(h, hashFunc))

\* matchH2 on the control word w and the fingerprint h2
MatchH2Returns(w, h2, r) ==
    /\ called
    /\ store(T)
    /\ UNCHANGED model
    /\ last' = [noCall EXCEPT !.op = "matchH2", !.key = h2, !.word = w,
                              !.bits = r]

MatchH2(w, h2) == MatchH2Returns(w, h2, matchH2(w, h2))

\* every valid control byte: Empty, Deleted and the fingerprints
ValidCtrls == (0 .. 127) \cup {slotEmpty, slotDeleted}

\* the control words that hold any valid control byte in one lane and the
\* same byte of FillCtrls in the seven others, and the words of CtrlWords
FillCtrls == {slotEmpty, slotDeleted, 2, 127}

LaneWords ==
    {[i \in Lanes |-> IF i = x[1] THEN x[2] ELSE x[3]] :
        x \in Lanes \X ValidCtrls \X FillCtrls}

MatchWords == LaneWords \cup CtrlWords

\* matchEmpty on the control word w
MatchEmptyReturns(w, r) ==
    /\ called
    /\ store(T)
    /\ UNCHANGED model
    /\ last' = [noCall EXCEPT !.op = "matchEmpty", !.word = w, !.bits = r]

MatchEmpty(w) == MatchEmptyReturns(w, matchEmpty(w))

\* matchEmptyOrDeleted on the control word w
MatchEmptyOrDeletedReturns(w, r) ==
    /\ called
    /\ store(T)
    /\ UNCHANGED model
    /\ last' = [noCall EXCEPT !.op = "matchEmptyOrDeleted", !.word = w,
                              !.bits = r]

MatchEmptyOrDeleted(w) == MatchEmptyOrDeletedReturns(w, matchEmptyOrDeleted(w))

\* hashes as 64-bit words: the inputs of TestHashSplit, and the words whose
\* first HashLanes bytes are any of HashBytes and whose other bytes are all
\* 0x00 or all 0xFF
HashLanes == 2

HashBytes == {0, 1, 127, 128, 255}

\* 0xABCD1234567890EF, the "Random pattern" of TestHashSplit
randomPattern == [i \in Lanes |-> <<239, 144, 120, 86, 52, 18, 205, 171>>[i + 1]]

HashWords ==
    {[i \in Lanes |-> IF i < HashLanes THEN x[1][i] ELSE x[2]] :
        x \in [0 .. (HashLanes - 1) -> HashBytes] \X {0, 255}}
    \cup {randomPattern}

\* HashSplit on the hash w
HashSplitReturns(w, r) ==
    /\ called
    /\ store(T)
    /\ UNCHANGED model
    /\ last' = [noCall EXCEPT !.op = "hashSplit", !.word = w, !.bits = r.h1,
                              !.key = r.h2]

HashSplitCall(w) == HashSplitReturns(w, HashSplit64(w))

\* two inputs of TestInvertCtrls: 0x0102030405060708 ("Mixed H2 values") and
\* 0x0080FE4280FE7F01 ("Mixed: full, empty, deleted")
mixedH2 == [i \in Lanes |-> groupSize - i]

mixedCtrls == [i \in Lanes |-> <<1, 127, 254, 128, 66, 254, 128, 0>>[i + 1]]

\* invertCtrls on the control word w
InvertCtrlsReturns(w, r) ==
    /\ called
    /\ store(T)
    /\ UNCHANGED model
    /\ last' = [noCall EXCEPT !.op = "invertCtrls", !.word = w, !.bits = r]

InvertCtrls(w) == InvertCtrlsReturns(w, invertCtrls(w))

NextPure ==
    \/ \E h \in Hints : New(h)
    \/ \E w \in CtrlWords, h2 \in Fingerprints : MatchH2(w, h2)
    \/ \E w \in MatchWords : MatchEmpty(w)
    \/ \E w \in MatchWords : MatchEmptyOrDeleted(w)

SpecPure == InitPure /\ [][NextPure]_vars

\* SpecWords: one call of invertCtrls on a control word of MatchWords or of
\* TestInvertCtrls, or of HashSplit on a hash of HashWords
NextWords ==
    \/ \E w \in MatchWords \cup {mixedH2, mixedCtrls} : InvertCtrls(w)
    \/ \E w \in HashWords : HashSplitCall(w)

SpecWords == InitPure /\ [][NextWords]_vars

\* SpecRace: a writer and a reader without synchronization. The writer
\* makes its calls one after the other (the fill and delete loops of the
\* tests, Compact); its Compact runs write by write. The reader calls Get at
\* any moment, also between two writes of a Compact. Every call takes one
\* unit of the budget, a Compact one for all its writes.
MaxRaceOps == 5

RaceKeys == {4, 16}

exclusive == compacting.pc = "idle"

WriterPutFill(a, b) == exclusive /\ PutFill(a, b)

WriterDeleteFill(a, b) == exclusive /\ DeleteFill(a, b)

\* the writer enters Compact
CompactBegin ==
    /\ exclusive
    /\ called
    /\ compacting' = [idleCompact EXCEPT !.pc = "retag"]
    /\ last' = [noCall EXCEPT !.op = "compactBegin", !.before = size,
                              !.tombs = tombstones]
    /\ UNCHANGED <<groups, capacity, numGroupsMask, capacityEffective, size,
                   tombstones, hashFunc, model, ss, twin>>

\* phase 1 re-tags the control byte of the slot (idx, j) (table.go:315-325)
CompactRetag ==
    /\ compacting.pc = "retag"
    /\ LET idx == compacting.idx
           j   == compacting.j
       IN  IF idx >= NumGroups(T)
           THEN /\ compacting' = [compacting EXCEPT !.pc = "scan", !.idx = 0, !.j = 0]
                /\ UNCHANGED groups
           ELSE /\ groups' = setCtrl(groups, idx, j, retag(groups[idx].ctrls[j]))
                /\ compacting' = IF j + 1 < groupSize
                                 THEN [compacting EXCEPT !.j = j + 1]
                                 ELSE [compacting EXCEPT !.idx = idx + 1, !.j = 0]
    /\ UNCHANGED <<capacity, numGroupsMask, capacityEffective, size,
                   tombstones, hashFunc, model, ss, twin, last, budget>>

\* phase 2 goes on to the next slot that carries the marker, reads its key
\* and value and probes for the target (table.go:327-360)
CompactScanReturns(m, r) ==
    /\ compacting.pc = "scan"
    /\ IF m.idx >= NumGroups(T)
       THEN compacting' = [idleCompact EXCEPT !.pc = "end"]
       ELSE /\ ~r.hang
            /\ compacting' = [pc |-> "write", idx |-> m.idx, j |-> m.j,
                              writes |-> r.writes,
                              key |-> groups[m.idx].slots[m.j],
                              after |-> r.j]
    /\ UNCHANGED <<groups, capacity, numGroupsMask, capacityEffective, size,
                   tombstones, hashFunc, model, ss, twin, last, budget>>

CompactScanAt(m) ==
    CompactScanReturns(m, IF m.idx >= NumGroups(T)
                          THEN [writes |-> <<>>, j |-> 0, hang |-> FALSE]
                          ELSE compactWrites(T, m.idx, m.j))

CompactScan == CompactScanAt(nextMarked(T, compacting.idx, compacting.j))

\* one write of the body (table.go:364-382); after the last one j is as
\* the body leaves it (j-- after a swap) and the inner loop adds 1 to it
CompactWrite ==
    /\ compacting.pc = "write"
    /\ groups' = applyWrite(groups, Head(compacting.writes))
    /\ compacting' = IF Len(compacting.writes) = 1
                     THEN [idleCompact EXCEPT !.pc = "scan",
                                              !.idx = compacting.idx,
                                              !.j = compacting.after + 1]
                     ELSE [compacting EXCEPT !.writes = Tail(compacting.writes)]
    /\ UNCHANGED <<capacity, numGroupsMask, capacityEffective, size,
                   tombstones, hashFunc, model, ss, twin, last, budget>>

\* t.tombstones = 0 and Compact returns (table.go:386)
CompactEnd ==
    /\ compacting.pc = "end"
    /\ tombstones' = 0
    /\ compacting' = idleCompact
    /\ last' = [noCall EXCEPT !.op = "compactEnd"]
    /\ UNCHANGED <<groups, capacity, numGroupsMask, capacityEffective, size,
                   hashFunc, model, ss, twin, budget>>

InitRace == \E c \in FillConfigs : constructed(init(c[1], c[2]), MaxRaceOps)

NextRace ==
    \/ \E r \in PutRanges : WriterPutFill(r[1], r[2])
    \/ \E r \in DeleteRanges : WriterDeleteFill(r[1], r[2])
    \/ CompactBegin
    \/ CompactRetag
    \/ CompactScan
    \/ CompactWrite
    \/ CompactEnd
    \/ \E k \in RaceKeys : Get(k)

SpecRace == InitRace /\ [][NextRace]_vars

\* ------------------------------------------------------------ properties

\* what Get(k) tells the caller on table t
Found(r) == <<r.v, r.ok>>

Lookup(t, k) == Found(get(t, k))

\* what the caller expects of Get(k): the value of the last successful
\* insertion of k that no Delete or Reset followed
Told(k) == IF model[k] = absent THEN <<emptyV, FALSE>> ELSE <<model[k][1], TRUE>>

\* capacity * 7 / 8
Ceiling == (capacity * 7) \div 8

\* no control byte of t is Empty
NoEmpty(t) == \A i \in DOMAIN t.groups : matchEmpty(t.groups[i].ctrls) = ZeroWord

\* C1: round trip. After every sequence of Set, Put, Delete (and Compact,
\* Reset), under every hash function, Get(k) returns (v, true) exactly when
\* the last successful insertion of k wrote v and k was not deleted since,
\* and not-found for every other key.
C1_RoundTrip == \A k \in AllKeys : Lookup(T, k) = Told(k)

\* C1: a Get found a key under the hash that sends every key to one group,
\* behind the tombstone of a deleted key
C1_Witness ==
    /\ hashFunc = "collision"
    /\ last.op = "get" /\ last.ok /\ <<last.v>> = model[last.key]
    /\ \E j \in Lanes : /\ groups[0].ctrls[j] = slotDeleted
                        /\ \E i \in Lanes : i > j /\ groups[0].ctrls[i] < slotEmpty
                                                   /\ groups[0].slots[i] = last.key

\* C2: tombstone transparency. A Delete(k) of a live key k changes what
\* Get(k') returns for no other key k', also when k and k' share their
\* start group and k' lies after k on the probe chain.
C2_TombstoneTransparency ==
    [][(last'.op = "delete" /\ get(T, last'.key).ok)
        => \A k \in AllKeys \ {last'.key} : Lookup(T', k) = Lookup(T, k)]_vars

\* C2: the Delete left its tombstone in a start group without an Empty
\* lane, and a live key of the same start group lies in a later group of
\* the chain
C2_Witness ==
    /\ last.op = "delete" /\ last.ok
    /\ LET s == startGroup(T, last.key)
       IN  /\ matchEmpty(groups[s].ctrls) = ZeroWord
           /\ \E j \in Lanes : /\ groups[s].ctrls[j] = slotDeleted
                               /\ groups[s].slots[j] = last.key
           /\ \E k \in AllKeys : /\ model[k] # absent
                                 /\ startGroup(T, k) = s
                                 /\ get(T, k).ok
                                 /\ get(T, k).probes > 1

\* C3: Compact preserves the contents. When Compact returns, every key
\* that was live is found with the value it had, and every key that was
\* absent is still not found.
C3_CompactPreservesContents ==
    [][(last'.op = "compact")
        => \A k \in AllKeys : Lookup(T', k) = Lookup(T, k)]_vars

\* C3: a Compact of a table that held tombstones and live keys returned
C3_Witness ==
    /\ last.op = "compact" /\ last.tombs > 0
    /\ \E k \in AllKeys : model[k] # absent /\ get(T, k).ok
    /\ \E k \in Keys : model[k] = absent /\ ~get(T, k).ok

\* C4: the post-condition of Compact. When Compact returns, tombstones is
\* 0, size is what it was, and no control byte is the Deleted sentinel.
C4_CompactPostCondition ==
    (last.op = "compact")
        => /\ tombstones = 0
           /\ size = last.before
           /\ \A i \in DOMAIN groups : \A j \in Lanes :
                  groups[i].ctrls[j] # slotDeleted

\* C4: a Compact that had tombstones to clear and entries to swap returned
C4_Witness ==
    /\ last.op = "compact" /\ last.tombs > 0 /\ last.n > 0 /\ size > 0

\* C5: in every reachable state size <= capacity * 7 / 8.
C5_SizeWithinCeiling == size <= Ceiling

\* C5: an insertion was refused at the ceiling
C5_Witness ==
    /\ size = Ceiling
    /\ last.op \in {"put", "set"} /\ last.err = ErrTableFull

\* C6: capacity ceiling. On a freshly constructed table the insertions of
\* pairwise distinct keys succeed until capacity * 7 / 8 keys are in, and
\* the insertion of the next new key fails with ErrTableFull.
C6_CapacityCeiling ==
    [][(T = init(capacity, hashFunc) /\ last'.op \in {"putfill", "setfill"})
        => LET want == last'.value - last'.key
           IN  /\ last'.n = Min(want, Ceiling)
               /\ last'.err = IF want > Ceiling THEN ErrTableFull ELSE nil]_vars

\* C6: the first call on a table of two groups was a loop of Set that
\* stored 14 keys and then failed
C6_Witness ==
    /\ budget = MaxFillOps - 1
    /\ capacity = 2 * groupSize
    /\ last.op = "setfill" /\ last.n = Ceiling /\ last.err = ErrTableFull

\* C7: a Put or Set called with size < effectiveCapacity never returns
\* ErrTableFull, whatever the tombstones: the probe always records a
\* candidate slot. (A fill loop that ended with ErrTableFull made its last
\* call at the size it left.)
C7_NoTableFullBelowCeiling ==
    /\ (last.op \in {"put", "set"} /\ last.before < capacityEffective)
           => last.err = nil
    /\ (last.op \in {"putfill", "setfill"} /\ last.err = ErrTableFull)
           => size >= capacityEffective

\* C7: a Put stored a new key in a tombstone of a table without an Empty
\* control byte
C7_Witness ==
    /\ last.op = "put" /\ last.isNew /\ last.err = nil
    /\ tombstones < last.tombs
    /\ NoEmpty(T)

\* C8: a Put or Set that returns ErrTableFull leaves every control byte,
\* key slot, value slot, size and tombstones as they were.
C8_TableFullChangesNothing ==
    [][(last'.op \in {"put", "set"} /\ last'.err = ErrTableFull)
        => T' = T]_vars

\* C8: a Put or Set returned ErrTableFull on a table that holds tombstones
C8_Witness ==
    /\ last.op \in {"put", "set"} /\ last.err = ErrTableFull
    /\ tombstones > 0

\* C9 as stated: in every reachable state a Set(k, v) on a present key
\* returns nil and replaces the value, size and tombstones unchanged.
C9_AsStated ==
    [][(last'.op = "set" /\ get(T, last'.key).ok)
        => /\ last'.err = nil
           /\ Lookup(T', last'.key) = <<last'.value, TRUE>>
           /\ size' = size
           /\ tombstones' = tombstones]_vars

\* C9: a Set(k, v) on a present key, called with size < effectiveCapacity,
\* returns nil and replaces the value, size and tombstones unchanged;
\* called with size = effectiveCapacity it returns ErrTableFull and
\* changes nothing.
C9_SetOverwritesBelowCeiling ==
    [][(last'.op = "set" /\ get(T, last'.key).ok)
        => IF size < capacityEffective
           THEN /\ last'.err = nil
                /\ Lookup(T', last'.key) = <<last'.value, TRUE>>
                /\ size' = size
                /\ tombstones' = tombstones
           ELSE /\ last'.err = ErrTableFull
                /\ T' = T]_vars

\* C9: a Set replaced the value of a present key
C9_Witness ==
    /\ last.op = "set" /\ last.err = nil
    /\ last.before = size
    /\ last.value # last.key
    /\ Lookup(T, last.key) = <<last.value, TRUE>>

\* C10: a Put on a present key returns isNew = false and changes nothing:
\* not the value of the key, no control byte, not size, not tombstones.
C10_PutKeepsExisting ==
    [][(last'.op = "put" /\ get(T, last'.key).ok)
        => /\ ~last'.isNew
           /\ T' = T]_vars

\* C10: a Put with another value met a present key
C10_Witness ==
    /\ last.op = "put" /\ ~last.isNew /\ last.err = nil
    /\ model[last.key] # absent
    /\ model[last.key] # <<last.value>>

\* the slots (group, lane) whose control byte differs between t and u
ChangedCtrls(t, u) ==
    {x \in (DOMAIN t.groups) \X Lanes :
        t.groups[x[1]].ctrls[x[2]] # u.groups[x[1]].ctrls[x[2]]}

\* C11: a Delete(k) of a live key k returns true, sets the control byte of
\* the slot of k, and no other, to Deleted, takes 1 from size and adds 1 to
\* tombstones; afterwards Get(k) finds nothing and a second Delete(k)
\* returns false.
C11_DeleteLiveKey ==
    [][(last'.op = "delete" /\ get(T, last'.key).ok)
        => /\ last'.ok
           /\ size' = size - 1
           /\ tombstones' = tombstones + 1
           /\ \E x \in (DOMAIN groups) \X Lanes :
                 /\ ChangedCtrls(T, T') = {x}
                 /\ groups[x[1]].ctrls[x[2]] < slotEmpty
                 /\ groups[x[1]].slots[x[2]] = last'.key
                 /\ groups'[x[1]].ctrls[x[2]] = slotDeleted
           /\ ~get(T', last'.key).ok
           /\ ~delete(T', last'.key).ok]_vars

\* C11: a Delete found its key and left a tombstone among live keys
C11_Witness ==
    /\ last.op = "delete" /\ last.ok
    /\ size = last.before - 1 /\ size > 0
    /\ tombstones = last.tombs + 1

\* C12: a Delete of a key that is not present returns false and leaves
\* every control byte, key slot, value slot, size and tombstones as they
\* were.
C12_DeleteAbsentKey ==
    [][(last'.op = "delete" /\ ~get(T, last'.key).ok)
        => /\ ~last'.ok
           /\ T' = T]_vars

\* C12: a Delete missed its key in a table that holds live keys and the
\* tombstone of that very key
C12_Witness ==
    /\ last.op = "delete" /\ ~last.ok
    /\ size > 0
    /\ \E i \in DOMAIN groups : \E j \in Lanes :
           groups[i].ctrls[j] = slotDeleted /\ groups[i].slots[j] = last.key

\* C13: Get and Has are read-only: for every key, present or absent, the
\* call leaves all control bytes, key and value slots, size and tombstones
\* unchanged.
C13_GetReadOnly ==
    [][(last'.op = "get") => T' = T]_vars

\* C13: a Get found its key in a table that also holds a tombstone
C13_Witness ==
    /\ last.op = "get" /\ last.ok
    /\ tombstones > 0

\* C15: Reset clears the table: afterwards every control byte is Empty,
\* size and tombstones are 0 and no key is found; capacity, the groups'
\* number and the effective capacity are unchanged, the key and value
\* slots are not touched, and the table takes effectiveCapacity new
\* insertions again.
C15_ResetClears ==
    [][(last'.op = "reset")
        => /\ \A i \in DOMAIN groups' : groups'[i].ctrls = emptyCtrls
           /\ size' = 0
           /\ tombstones' = 0
           /\ \A k \in AllKeys : ~get(T', k).ok
           /\ capacity' = capacity
           /\ DOMAIN groups' = DOMAIN groups
           /\ numGroupsMask' = numGroupsMask
           /\ capacityEffective' = capacityEffective
           /\ \A i \in DOMAIN groups : /\ groups'[i].slots = groups[i].slots
                                       /\ groups'[i].values = groups[i].values
           /\ LET r == putRange(T', model', 0, capacityEffective, 0)
              IN  r.n = capacityEffective /\ r.err = nil]_vars

\* C15: a Reset of a table that had stored two keys returned; the slots
\* still hold what was stored
C15_Witness ==
    /\ last.op = "reset"
    /\ size = 0 /\ tombstones = 0
    /\ \E i, j \in Lanes : i # j /\ groups[0].values[i] # emptyV
                                 /\ groups[0].values[j] # emptyV

\* C14 as stated: ErrTableFull is recoverable by compaction. If Set or Put
\* returns ErrTableFull while the table holds a tombstone, then after
\* Compact the same call succeeds. (A call that returns ErrTableFull
\* changes nothing, so the table Compact starts from is the table the call
\* was made on.)
C14_AsStated ==
    [][(last'.op = "compact" /\ tombstones > 0)
        => \A k \in FillKeys, v \in Values :
              /\ put(T, k, v).err = ErrTableFull => put(T', k, v).err = nil
              /\ set(T, k, v).err = ErrTableFull => set(T', k, v).err = nil]_vars

\* C16: Compact terminates from every reachable state, with at most as
\* many swaps as there are live entries.
C16_CompactTerminates ==
    LET r == tableCompact(T)
    IN  ~r.hang /\ r.swaps <= size

\* C16: a Compact returned after a chain of swaps
C16_Witness ==
    /\ last.op = "compact"
    /\ last.n >= 2 /\ last.n <= size

\* C17: every Get, Put, Set and Delete reads at most as many groups as the
\* table has and returns, also when no control byte is Empty and the key
\* is absent.
C17_ProbeBound ==
    \A k \in Keys \cup FillKeys :
        /\ get(T, k).probes <= NumGroups(T)
        /\ put(T, k, k).probes <= NumGroups(T)
        /\ set(T, k, k).probes <= NumGroups(T)
        /\ delete(T, k).probes <= NumGroups(T)

\* C17: a Get of an absent key read every group of a table of two groups
\* without an Empty control byte
C17_Witness ==
    /\ last.op = "get" /\ ~last.ok
    /\ NoEmpty(T)
    /\ NumGroups(T) = 2
    /\ get(T, last.key).probes = 2

\* the smallest power of two >= x
PowersOf2 == {2 ^ e : e \in 0 .. 30}

SmallestPowerOf2AtLeast(x) ==
    CHOOSE c \in PowersOf2 : c >= x /\ \A d \in PowersOf2 : d >= x => c <= d

Max(a, b) == IF a > b THEN a ELSE b

\* C18 as stated: a table constructed with a positive capacity hint h has
\* capacity = the smallest power of two >= max(h, 8), capacity / 8 >= 1
\* groups, the group mask groups - 1 and the effective capacity
\* floor(capacity * 7 / 8).
C18_AsStated ==
    (last.op = "new")
        => LET want == SmallestPowerOf2AtLeast(Max(last.n, groupSize))
           IN  /\ capacity = want
               /\ NumGroups(T) = want \div groupSize
               /\ NumGroups(T) >= 1
               /\ numGroupsMask = NumGroups(T) - 1
               /\ capacityEffective = (want * 7) \div 8

\* C19: probe permutation. For every table and every start group the
\* groups the probe loops read in the iterations 0 .. groupCount - 1 are
\* pairwise distinct and are all the groups.
C19_ProbePermutation ==
    (NumGroups(T) >= 1)
        => \A start \in 0 .. numGroupsMask :
              {probeOffset(T, start, p) : p \in 0 .. numGroupsMask}
                  = 0 .. numGroupsMask

\* C19: a table of 16 groups was constructed; the probe from group 5 ends
\* in a group other than the one it read before
C19_Witness ==
    /\ last.op = "new"
    /\ NumGroups(T) = 2 * groupSize
    /\ probeOffset(T, 5, numGroupsMask) # probeOffset(T, 5, numGroupsMask - 1)

\* C20 as stated: matchH2 is exact. The high bit of lane i of the result
\* is set if and only if the control byte of lane i equals h2, and no
\* other bit is set.
C20_AsStated ==
    (last.op = "matchH2")
        => \A i \in Lanes :
              last.bits[i] = IF last.word[i] = last.key THEN 128 ELSE 0

\* C20: matchH2 misses no lane and reports a wrong lane only behind a
\* reported one. No bit but the high bits of the lanes is set; the high bit
\* of lane i is set if and only if the control byte of lane i equals h2, or
\* equals h2 with its lowest bit flipped while lane i - 1 is set in the
\* result.
C20_MatchH2UpToBorrow ==
    (last.op = "matchH2")
        => \A i \in Lanes :
              /\ last.bits[i] \in {0, 128}
              /\ last.bits[i] = 128
                   <=> \/ last.word[i] = last.key
                       \/ /\ i > 0
                          /\ last.word[i] = ByteXor(last.key, 1)
                          /\ last.bits[i - 1] = 128

\* C20: matchH2 reported a lane whose control byte is not h2
C20_Witness ==
    /\ last.op = "matchH2"
    /\ \E i \in Lanes : last.bits[i] = 128 /\ last.word[i] # last.key

\* C21: for every control word of 8 valid control bytes matchEmpty sets the
\* high bit of exactly the lanes whose byte is Empty, never of a Deleted or
\* Full lane, and matchEmptyOrDeleted sets the high bit of exactly the lanes
\* whose byte is Empty or Deleted, never of a Full lane; no other bit is set.
C21_SentinelMatchersExact ==
    /\ (last.op = "matchEmpty")
          => \A i \in Lanes :
                last.bits[i] = IF last.word[i] = slotEmpty THEN 128 ELSE 0
    /\ (last.op = "matchEmptyOrDeleted")
          => \A i \in Lanes :
                last.bits[i] = IF last.word[i] \in {slotEmpty, slotDeleted}
                               THEN 128 ELSE 0

\* C21: matchEmpty ran on a word that holds Empty, Deleted and a Full byte
\* whose bit 1 is set, and reported a lane
C21_Witness ==
    /\ last.op = "matchEmpty"
    /\ \E i, j, k \in Lanes :
          /\ last.word[i] = slotEmpty /\ last.bits[i] = 128
          /\ last.word[j] = slotDeleted
          /\ last.word[k] < slotEmpty /\ Bit(last.word[k], 1) = 1

\* the slots (group, lane) of t whose control byte is a fingerprint
FullSlots(t) ==
    {x \in (DOMAIN t.groups) \X Lanes : t.groups[x[1]].ctrls[x[2]] < slotEmpty}

\* C22: between operations every control byte is Empty, Deleted or, in a
\* Full slot, the low 7 bits of the hash of the key stored in that slot,
\* which is below 0x80 and so neither sentinel.
C22_FullCtrlIsFingerprint ==
    /\ \A i \in DOMAIN groups : \A j \in Lanes :
          \/ groups[i].ctrls[j] \in {slotEmpty, slotDeleted}
          \/ /\ groups[i].ctrls[j] = IntAnd(Hash(hashFunc, groups[i].slots[j]), 127)
             /\ groups[i].ctrls[j] < slotEmpty
    /\ \A k \in AllKeys : fingerprint(T, k) \notin {slotEmpty, slotDeleted}

\* C22: a Compact swapped entries and left Full slots with three
\* fingerprints
C22_Witness ==
    /\ last.op = "compact" /\ last.n >= 1
    /\ Cardinality({groups[x[1]].ctrls[x[2]] : x \in FullSlots(T)}) >= 3

\* the slots (group, lane) of t whose control byte is Deleted
DeletedSlots(t) ==
    {x \in (DOMAIN t.groups) \X Lanes : t.groups[x[1]].ctrls[x[2]] = slotDeleted}

\* C23: counter accounting. Between operations size is the number of Full
\* control bytes and the number of keys Get finds, tombstones is the number
\* of control bytes equal to Deleted, and size + tombstones <= capacity.
C23_CounterAccounting ==
    /\ size = Cardinality(FullSlots(T))
    /\ size = Cardinality({k \in AllKeys : get(T, k).ok})
    /\ tombstones = Cardinality(DeletedSlots(T))
    /\ size + tombstones <= capacity

\* C23: a Put wrote a new key over a tombstone next to another live
\* key
C23_Witness ==
    /\ last.op = "put" /\ last.isNew
    /\ tombstones = last.tombs - 1
    /\ size = last.before + 1
    /\ size >= 2

\* C24: from every reachable state each relocation probe of Compact's
\* phase 2 finds an Empty-or-Deleted lane after reading at most as many
\* groups as the table has; no probe runs on without finding one.
C24_RelocationProbeBound ==
    LET r == tableCompact(T)
    IN  ~r.hang /\ r.probes <= NumGroups(T)

\* C24: a Compact returned whose relocation probe had to read both groups
\* of the table: the start group of the key held no Empty or Deleted lane
C24_Witness ==
    /\ last.op = "compact"
    /\ NumGroups(T) = 2
    /\ last.probes = 2

\* a slot that holds the key k carries the marker 0xFE
Marked(k) ==
    \E x \in DeletedSlots(T) : groups[x[1]].slots[x[2]] = k

\* the body of phase 2 is moving the key k: k is the key the body read, or
\* the key a swap has taken out of the target and not yet stored back
InFlight(k) ==
    /\ compacting.pc = "write"
    /\ \/ k = compacting.key
       \/ \E n \in 1 .. Len(compacting.writes) :
             compacting.writes[n][1] = "slot" /\ compacting.writes[n][4] = k

\* C25: exclusive access is required. A Get of a live key tells the caller
\* something else than the entry (not found, or a value that is not the
\* key's) only when it runs between two writes of a Compact, at a moment
\* when the key's slot carries the marker of phase 1 or the key is being
\* moved.
C25_ReaderNeedsExclusiveAccess ==
    \A k \in AllKeys :
        (model[k] # absent /\ Lookup(T, k) # Told(k))
            => /\ ~exclusive
               /\ Marked(k) \/ InFlight(k)

\* C25: a Get between two writes of a Compact returned the value of another
\* key for a live key, and at this moment another live key is not found
C25_Witness ==
    /\ last.op = "get"
    /\ ~exclusive
    /\ model[last.key] # absent
    /\ last.ok /\ last.v # model[last.key][1] /\ last.v # emptyV
    /\ \E k \in AllKeys : model[k] # absent /\ ~get(T, k).ok

\* the lanes of group gi of t whose control byte is Empty or Deleted
FreeLanes(t, gi) ==
    {j \in Lanes : t.groups[gi].ctrls[j] \in {slotEmpty, slotDeleted}}

Least(S) == CHOOSE x \in S : \A y \in S : x <= y

\* the positions on the probe sequence of key k whose group has an
\* Empty-or-Deleted lane
FreePositions(t, k) ==
    {p \in 0 .. t.numGroupsMask :
        FreeLanes(t, probeOffset(t, startGroup(t, k), p)) # {}}

LowestFreeOf(t, gi) == <<gi, Least(FreeLanes(t, gi))>>

\* the first group on the probe sequence of key k with an Empty-or-Deleted
\* lane, and its lowest such lane
FirstFree(t, k) ==
    LowestFreeOf(t, probeOffset(t, startGroup(t, k), Least(FreePositions(t, k))))

\* the step stores the key k with the value v and its fingerprint in the
\* slot x, counts it, and changes nothing else
PlacedAt(k, v, x) ==
    /\ groups' = [groups EXCEPT
           ![x[1]].ctrls[x[2]]  = IntAnd(Hash(hashFunc, k), 127),
           ![x[1]].slots[x[2]]  = k,
           ![x[1]].values[x[2]] = v]
    /\ size' = size + 1
    /\ tombstones' = IF groups[x[1]].ctrls[x[2]] = slotDeleted
                     THEN tombstones - 1 ELSE tombstones

\* C26: placement of a new key. A Put or Set that inserts a key that is not
\* present writes fingerprint, key and value into the lowest Empty-or-Deleted
\* lane of the first group on the key's probe sequence that has such a
\* lane, adds 1 to size and takes 1 from tombstones if and only if that lane
\* held Deleted; every other slot is unchanged.
C26_PlacementOfNewKey ==
    [][(/\ last'.op \in {"put", "set"}
        /\ last'.err = nil
        /\ last'.op = "put" => last'.isNew
        /\ ~get(T, last'.key).ok)
        => /\ FreePositions(T, last'.key) # {}
           /\ PlacedAt(last'.key, last'.value, FirstFree(T, last'.key))]_vars

\* C26: a Put of a new key went into a tombstone of its start group, which
\* has no Empty lane, while a later group on its probe sequence has one
C26_Witness ==
    /\ last.op = "put" /\ last.isNew
    /\ tombstones = last.tombs - 1
    /\ NumGroups(T) = 2
    /\ LET s == startGroup(T, last.key)
       IN  /\ \E j \in Lanes : groups[s].slots[j] = last.key
                                /\ groups[s].ctrls[j] < slotEmpty
           /\ matchEmpty(groups[s].ctrls) = ZeroWord
           /\ matchEmpty(groups[1 - s].ctrls) # ZeroWord

\* no key is stored in two Full slots of t
NoDuplicates(t) ==
    \A x, y \in FullSlots(t) :
        x # y => t.groups[x[1]].slots[x[2]] # t.groups[y[1]].slots[y[2]]

\* C27: no duplicates. Between operations no key is stored in two Full
\* slots. In particular, in every reachable table and in the table any
\* further Delete makes of it, a Put or Set of a key that is present meets
\* the entry, also beyond tombstones, and inserts nothing: Put changes
\* nothing, Set changes no control byte, key or counter.
C27_NoDuplicates ==
    /\ NoDuplicates(T)
    /\ \A d \in FillKeys :
          LET U == delete(T, d).t
          IN  \A k \in FillKeys :
                  get(U, k).ok
                      => LET r == put(U, k, 1)
                             q == set(U, k, 1)
                         IN  /\ r.err = nil => (~r.isNew /\ r.t = U)
                             /\ q.err = nil => /\ q.t.size = U.size
                                                /\ q.t.tombstones = U.tombstones
                                                /\ ChangedCtrls(U, q.t) = {}
                                                /\ NoDuplicates(q.t)

\* C27: a Put met its key in a lane above a tombstone of the same group and
\* inserted nothing
C27_Witness ==
    /\ last.op = "put" /\ ~last.isNew /\ last.err = nil
    /\ size = last.before
    /\ \E i \in DOMAIN groups : \E a, b \in Lanes :
          /\ a < b
          /\ groups[i].ctrls[a] = slotDeleted
          /\ groups[i].ctrls[b] < slotEmpty /\ groups[i].slots[b] = last.key

\* the position of group gi on the probe sequence of key k in table t
PositionOf(t, k, gi) ==
    Least({p \in 0 .. t.numGroupsMask : probeOffset(t, startGroup(t, k), p) = gi})

\* group gi of t holds an Empty control byte
HasEmpty(t, gi) == \E j \in Lanes : t.groups[gi].ctrls[j] = slotEmpty

\* C28: probe-chain invariant. Between operations, for every live key k
\* stored in the group at position i of the probe sequence of k, none of the
\* groups at the positions 0 .. i-1 holds an Empty control byte, and so the
\* search that stops at the first group with an Empty lane finds k.
C28_ProbeChain ==
    \A x \in FullSlots(T) :
        LET k == groups[x[1]].slots[x[2]]
        IN  /\ \A q \in 0 .. (PositionOf(T, k, x[1]) - 1) :
                  ~HasEmpty(T, probeOffset(T, startGroup(T, k), q))
            /\ get(T, k).ok

\* C28: a live key is stored in the second group of its probe sequence and
\* its start group holds a tombstone
C28_Witness ==
    /\ last.op = "deletefill" /\ last.n > 0
    /\ \E x \in FullSlots(T) :
          LET k == groups[x[1]].slots[x[2]]
          IN  /\ PositionOf(T, k, x[1]) = 1
              /\ \E j \in Lanes : groups[startGroup(T, k)].ctrls[j] = slotDeleted

\* C29 as stated: Compact is idempotent. In the state a Compact leaves, a
\* second Compact changes nothing: every control byte, key slot, value slot, size
\* and tombstones are as the first Compact left them.
C29_AsStated ==
    (last.op = "compact") => tableCompact(T).t = T

\* C29: a second Compact right after a Compact returns and changes nothing
\* a caller can see: size and tombstones (0) are the same, no control byte
\* is Deleted, as many control bytes are Full as before, and Get finds the
\* same keys with the same values. In a table of one group it changes no
\* control byte, key slot or value slot either.
C29_SecondCompactKeepsContents ==
    (last.op = "compact")
        => LET b == tableCompact(T)
           IN  /\ ~b.hang
               /\ b.t.size = size
               /\ b.t.tombstones = 0 /\ tombstones = 0
               /\ DeletedSlots(b.t) = {}
               /\ Cardinality(FullSlots(b.t)) = Cardinality(FullSlots(T))
               /\ \A k \in AllKeys : Lookup(b.t, k) = Lookup(T, k)
               /\ NumGroups(T) = 1 => b.t = T

\* C29: a Compact returned and a second one would move entries to other
\* slots
C29_Witness ==
    /\ last.op = "compact"
    /\ size > 0
    /\ tableCompact(T).swaps > 0
    /\ tableCompact(T).t.groups # groups

\* the slot (gi, l) lies before the slot (idx, j) in the order of the scan
Before(gi, l, idx, j) == gi < idx \/ (gi = idx /\ l < j)

\* no slot before the scan cursor of phase 2 carries the marker
NoMarkerBehind ==
    /\ compacting.pc \in {"scan", "write"}
          => \A x \in DeletedSlots(T) :
                ~Before(x[1], x[2], compacting.idx, compacting.j)
    /\ compacting.pc = "end" => DeletedSlots(T) = {}

\* the slots the body in progress still writes to
PendingSlots == {<<compacting.writes[n][2], compacting.writes[n][3]>> :
                    n \in 1 .. Len(compacting.writes)}

\* C30: the scan invariant of Compact's phase 2. At every step of phase 2
\* no slot before the scan cursor carries the marker 0xFE; a resolved Full
\* slot (Full, and not the target the body in progress is writing) keeps
\* its control byte, key and value; and when the body of a swap ends the
\* cursor is on the same slot, also for lane 0 where j-- wraps, that slot
\* carries the marker and is the slot the scan processes next.
C30_ScanInvariant ==
    [][/\ NoMarkerBehind'
       /\ (compacting.pc \in {"scan", "write"})
             => \A x \in FullSlots(T) \ PendingSlots :
                   /\ groups'[x[1]].ctrls[x[2]] = groups[x[1]].ctrls[x[2]]
                   /\ groups'[x[1]].slots[x[2]] = groups[x[1]].slots[x[2]]
                   /\ groups'[x[1]].values[x[2]] = groups[x[1]].values[x[2]]
       /\ (/\ compacting.pc = "write"
           /\ compacting'.pc = "scan"
           /\ Head(compacting.writes)[1] = "value")
             => /\ compacting'.idx = compacting.idx
                /\ compacting'.j = compacting.j
                /\ groups'[compacting.idx].ctrls[compacting.j] = slotDeleted
                /\ nextMarked(T', compacting'.idx, compacting'.j)
                      = [idx |-> compacting.idx, j |-> compacting.j]]_vars

\* C30: the body of a swap for the slot in lane 0 has one write left: j
\* wraps when the body ends
C30_Witness ==
    /\ compacting.pc = "write"
    /\ compacting.j = 0
    /\ compacting.after = -1
    /\ Len(compacting.writes) = 1

\* the slots of t that hold an entry during Compact: the control byte is a
\* fingerprint or the relocation marker
EntrySlots(t) == FullSlots(t) \cup DeletedSlots(t)

\* C31: no entry is lost or duplicated during Compact. After every step of
\* phase 2 (in-place restore, move, swap) and when Compact has returned,
\* the (key, value) pairs in the slots whose control byte is a fingerprint
\* or the marker are the live entries from before Compact, each once.
C31_CompactKeepsEntries ==
    (compacting.pc \in {"scan", "end"} \/ last.op = "compactEnd")
        => /\ \A x \in EntrySlots(T) :
                 model[groups[x[1]].slots[x[2]]] = <<groups[x[1]].values[x[2]]>>
           /\ \A k \in AllKeys :
                 Cardinality({x \in EntrySlots(T) : groups[x[1]].slots[x[2]] = k})
                     = IF model[k] = absent THEN 0 ELSE 1

\* C31: phase 2 stands at a slot of group 0 that carries the marker, after
\* a swap took key 16 from group 0 to its start group 1
C31_Witness ==
    /\ compacting.pc = "scan"
    /\ compacting.idx = 0
    /\ 1 \in DOMAIN groups
    /\ compacting.j \in Lanes
    /\ groups[0].ctrls[compacting.j] = slotDeleted
    /\ \E j \in Lanes : groups[1].ctrls[j] < slotEmpty /\ groups[1].slots[j] = 16
    /\ \A j \in Lanes : groups[0].slots[j] = 16 => groups[0].ctrls[j] = slotEmpty

\* SpecSteps: loops of the package taken one iteration at a time, in
\* tables of 1, 2, 4, ... 2^MaxProbeExp groups: the index sequence of the
\* relocation probe of Compact from every start group; and the loop over
\* the lanes of a bitset (first, removeFirst) on every bitset that has only
\* lane high bits set.
MaxProbeExp == 5

\* the bitsets with only the high bit of some lanes set
HighBitsets == {[i \in Lanes |-> IF i \in S THEN slotEmpty ELSE 0] : S \in SUBSET Lanes}

ProbeGroups == {2 ^ e : e \in 0 .. MaxProbeExp}

InitSteps == \E n \in ProbeGroups : constructed(init(groupSize * n, "ident"), 1)

\* the relocation probe starts: p = 0, currGIdx = destGroupIdx
CompactProbeBegin(start) ==
    /\ called
    /\ store(T)
    /\ UNCHANGED model
    /\ last' = [noCall EXCEPT !.op = "probe", !.key = start, !.n = 0,
                              !.v = start]

\* the relocation probe found no Empty-or-Deleted lane and steps on; the
\* index sequence repeats after 2 * numGroups steps
CompactProbeNextReturns(r) ==
    /\ last.op = "probe"
    /\ last.n < 2 * NumGroups(T)
    /\ store(T)
    /\ UNCHANGED <<model, budget>>
    /\ last' = [last EXCEPT !.n = r.p, !.v = r.currGIdx]

CompactProbeNext ==
    CompactProbeNextReturns(compactProbeStep(numGroupsMask, last.n, last.v))

\* a matcher returned the bitset b and the loop over its lanes starts
BitsetBegin(b) ==
    /\ called
    /\ store(T)
    /\ UNCHANGED model
    /\ last' = [noCall EXCEPT !.op = "bits", !.word = b, !.bits = b]

\* one iteration of `for matches != 0`: idx := matches.first(), the key
\* at idx is another one, matches = matches.removeFirst()
BitsetNextReturns(idx, rest) ==
    /\ last.op = "bits"
    /\ last.bits # ZeroWord
    /\ store(T)
    /\ UNCHANGED <<model, budget>>
    /\ last' = [last EXCEPT !.n = last.n + 1, !.bits = rest,
                            !.lanes = Append(last.lanes, idx)]

BitsetNext == BitsetNextReturns(first(last.bits), removeFirst(last.bits))

NextSteps ==
    \/ \E start \in 0 .. numGroupsMask : CompactProbeBegin(start)
    \/ CompactProbeNext
    \/ \E b \in HighBitsets : BitsetBegin(b)
    \/ BitsetNext

SpecSteps == InitSteps /\ [][NextSteps]_vars

\* C32: the relocation probe of Compact visits the group sequence of
\* insertion and lookup: from every start group, in a table of any
\* power-of-two number of groups, the index it has computed step by step
\* (curr + p, masked) when it has counted p steps is
\* (start + p(p+1)/2) mod numGroups, the group the probe loops of get,
\* put, set and delete read in iteration p.
C32_RelocationProbeSequence ==
    last.op = "probe"
        => /\ last.v = (last.key + (last.n * (last.n + 1)) \div 2) % NumGroups(T)
           /\ last.v = probeOffset(T, last.key, last.n)

\* C32: in a table of 16 groups the probe from group 5 has wrapped around
\* the table several times by step 20
C32_Witness ==
    /\ last.op = "probe"
    /\ NumGroups(T) = 16
    /\ last.key = 5
    /\ last.n = 20
    /\ last.v = 7

\* the lanes of the bitset b that are set
SetLanes(b) == {i \in Lanes : b[i] # 0}

\* C37: for every bitset that has only lane high bits set, taking first()
\* and then removeFirst() again and again yields each set lane once in
\* ascending order (the i-th index yielded is the i-th smallest set lane),
\* removeFirst clears the lane first() returned and no other, and the
\* bitset is zero exactly when as many steps were taken as lanes were set.
C37_BitsetIteration ==
    last.op = "bits"
        => /\ Len(last.lanes) = last.n
           /\ last.n <= Cardinality(SetLanes(last.word))
           /\ \A i \in 1 .. Len(last.lanes) :
                 /\ last.lanes[i] \in SetLanes(last.word)
                 /\ Cardinality({l \in SetLanes(last.word) : l < last.lanes[i]}) = i - 1
           /\ last.bits =
                 [l \in Lanes |->
                     IF /\ l \in SetLanes(last.word)
                        /\ \A i \in 1 .. Len(last.lanes) : last.lanes[i] # l
                     THEN slotEmpty ELSE 0]
           /\ (last.bits = ZeroWord) = (last.n = Cardinality(SetLanes(last.word)))

\* C37: the loop over the bitset of the lanes 1, 2, 5 and 7 has ended after
\* four steps
C37_Witness ==
    /\ last.op = "bits"
    /\ SetLanes(last.word) = {1, 2, 5, 7}
    /\ last.lanes = <<1, 2, 5, 7>>
    /\ last.bits = ZeroWord

\* bit i of the 64-bit word w
WordBit(w, i) == Bit(w[i \div 8], i % 8)

\* a << 7 modulo 2^64
WordShl7(a) ==
    [i \in Lanes |-> ((a[i] % 2) * 128) + (IF i = 0 THEN 0 ELSE a[i - 1] \div 2)]

\* the value of a word below 2^31
WordValue(w) == w[0] + 256 * w[1] + 65536 * w[2] + 16777216 * w[3]

\* the hash w with its low 7 bits replaced by l
WithLow7(w, l) == [w EXCEPT ![0] = 128 * (w[0] \div 128) + l]

\* C35: HashSplit is a lossless split. For every 64-bit hash, h2 is the
\* low 7 bits (0x00..0x7F), h1 is the hash shifted right by 7 (bit i of h1
\* is bit i + 7 of the hash, its top 7 bits are 0), (h1 << 7) | h2 is the
\* hash again, and every hash with the same bits above the low 7 has the
\* same h1, from which alone the start group is taken. For a hash below
\* 2^31 this is the split the tables of the model use.
C35_HashSplitLossless ==
    last.op = "hashSplit"
        => /\ last.key \in 0 .. 127
           /\ last.key = last.word[0] % 128
           /\ \A i \in 0 .. 63 :
                 WordBit(last.bits, i) = IF i + 7 <= 63 THEN WordBit(last.word, i + 7)
                                                       ELSE 0
           /\ WordOr(WordShl7(last.bits), [ZeroWord EXCEPT ![0] = last.key])
                 = last.word
           /\ \A l \in 0 .. 127 : HashSplit64(WithLow7(last.word, l)).h1 = last.bits
           /\ (last.word[3] < 128 /\ \A i \in 4 .. 7 : last.word[i] = 0)
                 => HashSplit(WordValue(last.word))
                        = [h1 |-> WordValue(last.bits), h2 |-> last.key]

\* C35: HashSplit has split 0xABCD1234567890EF into 0xABCD1234567890EF >> 7
\* and 0x6F
C35_Witness ==
    /\ last.op = "hashSplit"
    /\ last.word = randomPattern
    /\ last.key = 111
    /\ last.bits = [i \in Lanes |-> <<33, 241, 172, 104, 36, 154, 87, 1>>[i + 1]]

\* C34: the re-tagging of Compact phase 1 done on a whole control word is
\* exact in every lane. For every control word of 8 valid control bytes,
\* invertCtrls returns the word in which each Full lane (0x00..0x7F) is
\* 0xFE and each Deleted (0xFE) or Empty (0x80) lane is 0x80, which is what
\* the byte-by-byte loop of Compact makes of each control byte.
C34_InvertCtrlsLaneWise ==
    last.op = "invertCtrls"
        => /\ \A i \in Lanes : last.word[i] \in ValidCtrls
           /\ \A i \in Lanes :
                 last.bits[i] = IF last.word[i] <= 127 THEN slotDeleted ELSE slotEmpty
           /\ last.bits = [i \in Lanes |-> retag(last.word[i])]

\* C34: invertCtrls has turned 0x0080FE4280FE7F01 into 0xFE8080FE8080FEFE
C34_Witness ==
    /\ last.op = "invertCtrls"
    /\ last.word = mixedCtrls
    /\ last.bits = [i \in Lanes |-> <<254, 254, 128, 128, 254, 128, 128, 254>>[i + 1]]

\* SpecFlat: the flat StableSet of capacity 8 or 16 whose key k starts at
\* slot k, under at most MaxFlatOps calls: the fill loop over the keys
\* 0 .. 6, and Put and Delete of the keys of FlatKeys.
MaxFlatOps == 4

FlatKeys == {0, 1, 7, 8}

FlatPutRanges == {<<0, 7>>}

FlatConfigs == {<<8, "slot">>, <<16, "slot">>}

InitFlat ==
    \E c \in FlatConfigs :
        constructedWith(init(groupSize, c[2]), MaxFlatOps, ssNew(c[1], c[2]), noTwin)

\* a call on the flat StableSet leaves the table of groups alone
storeSet(s) ==
    /\ ss' = s
    /\ UNCHANGED <<groups, capacity, numGroupsMask, capacityEffective, size,
                   tombstones, hashFunc, model, compacting, twin>>

\* StableSet.Put(k) returns
FlatPutReturns(k, r) ==
    /\ called
    /\ ~r.hang
    /\ storeSet(r.s)
    /\ last' = [noCall EXCEPT !.op = "ssPut", !.key = k, !.ok = r.ok,
                              !.err = IF r.rehash THEN ErrTableFull ELSE nil,
                              !.before = ss.size, !.probes = r.probe]

FlatPut(k) == FlatPutReturns(k, ssPut(ss, k))

\* StableSet.Delete(k) returns
FlatDeleteReturns(k, r) ==
    /\ called
    /\ storeSet(r.s)
    /\ last' = [noCall EXCEPT !.op = "ssDelete", !.key = k, !.ok = r.ok,
                              !.before = ss.size]

FlatDelete(k) == FlatDeleteReturns(k, ssDelete(ss, k))

\* the fill loop over the keys a .. b-1 returns
FlatPutFillReturns(a, b, r) ==
    /\ called
    /\ ~r.hang
    /\ storeSet(r.s)
    /\ last' = [noCall EXCEPT !.op = "ssPutFill", !.key = a, !.value = b,
                              !.ok = r.ok, !.before = ss.size]

FlatPutFill(a, b) == FlatPutFillReturns(a, b, ssPutRange(ss, a, b))

NextFlat ==
    \/ \E k \in FlatKeys : FlatPut(k)
    \/ \E k \in FlatKeys : FlatDelete(k)
    \/ \E x \in FlatPutRanges : FlatPutFill(x[1], x[2])

SpecFlat == InitFlat /\ [][NextFlat]_vars

\* C36: in the flat StableSet, Put returns after at most capacity / 8 probe
\* steps in every reachable state, also when size < effectiveCapacity, no
\* control byte is Empty and the key is absent.
C36_AsStated ==
    \A k \in FlatKeys :
        /\ ~ssPut(ss, k).hang
        /\ ssPut(ss, k).probe <= ss.capacity \div groupSize

\* SpecTwin: two tables built from the same capacity hint with two hash
\* functions and driven by the same calls, at most MaxTwinOps of them: Get,
\* Put, Set and Delete of the keys of TwinKeys, Compact, Reset, and the fill
\* loop over the keys 0 .. 6. The variables of the table hold the first
\* table, twin.t the second one, twin.ret what its call returned.
MaxTwinOps == 4

TwinKeys == {0, 1, 8}

TwinConfigs == {<<8, "collision", "ident">>, <<16, "collision", "stride">>}

TwinPutRanges == {<<0, 7>>}

\* a call on the table t whose method returned r: the table it leaves and
\* what it returns (ok: the found flag of Get, the result of Delete; v: the
\* value of Get, the number of puts of a fill loop)
returned(t, ok, v, isNew, err, hang) ==
    [t |-> t, ok |-> ok, v |-> v, isNew |-> isNew, err |-> err, hang |-> hang]

getReturned(t, r) == returned(t, r.ok, r.v, FALSE, nil, FALSE)

callGet(t, k) == getReturned(t, get(t, k))

putReturned(r) == returned(r.t, FALSE, 0, r.isNew, r.err, FALSE)

callPut(t, k, v) == putReturned(put(t, k, v))

setReturned(r) == returned(r.t, FALSE, 0, FALSE, r.err, FALSE)

callSet(t, k, v) == setReturned(set(t, k, v))

deleteReturned(r) == returned(r.t, r.ok, 0, FALSE, nil, FALSE)

callDelete(t, k) == deleteReturned(delete(t, k))

compactReturned(r) == returned(r.t, FALSE, 0, FALSE, nil, r.hang)

callCompact(t) == compactReturned(tableCompact(t))

callReset(t) == returned(tableReset(t), FALSE, 0, FALSE, nil, FALSE)

putFillReturned(r) == returned(r.t, FALSE, r.n, r.isNew, r.err, FALSE)

callPutFill(t, a, b) ==
    putFillReturned(putRange(t, [x \in AllKeys |-> absent], a, b, 0))

InitTwin ==
    \E c \in TwinConfigs :
        constructedWith(init(c[1], c[2]), MaxTwinOps, ssNew(groupSize, c[2]),
                        [noTwin EXCEPT !.t = init(c[1], c[3])])

\* the same call returns from both tables
TwinCallReturns(op, k, v, r1, r2) ==
    /\ called
    /\ ~r1.hang
    /\ groups' = r1.t.groups
    /\ size' = r1.t.size
    /\ tombstones' = r1.t.tombstones
    /\ twin' = [t   |-> r2.t,
                ret |-> [ok |-> r2.ok, v |-> r2.v, isNew |-> r2.isNew,
                         err |-> r2.err, hang |-> r2.hang]]
    /\ last' = [noCall EXCEPT !.op = op, !.key = k, !.value = v, !.ok = r1.ok,
                              !.v = r1.v, !.isNew = r1.isNew, !.err = r1.err,
                              !.before = size, !.tombs = tombstones]
    /\ UNCHANGED <<capacity, numGroupsMask, capacityEffective, hashFunc, model,
                   compacting, ss>>

TwinGet(k) == TwinCallReturns("get", k, 0, callGet(T, k), callGet(twin.t, k))

TwinPut(k, v) ==
    TwinCallReturns("put", k, v, callPut(T, k, v), callPut(twin.t, k, v))

TwinSet(k, v) ==
    TwinCallReturns("set", k, v, callSet(T, k, v), callSet(twin.t, k, v))

TwinDelete(k) ==
    TwinCallReturns("delete", k, 0, callDelete(T, k), callDelete(twin.t, k))

TwinCompact ==
    TwinCallReturns("compact", 0, 0, callCompact(T), callCompact(twin.t))

TwinReset == TwinCallReturns("reset", 0, 0, callReset(T), callReset(twin.t))

TwinPutFill(a, b) ==
    TwinCallReturns("putfill", a, b, callPutFill(T, a, b), callPutFill(twin.t, a, b))

NextTwin ==
    \/ \E k \in TwinKeys : TwinGet(k)
    \/ \E k \in TwinKeys, v \in Values : TwinPut(k, v)
    \/ \E k \in TwinKeys, v \in Values : TwinSet(k, v)
    \/ \E k \in TwinKeys : TwinDelete(k)
    \/ TwinCompact
    \/ TwinReset
    \/ \E x \in TwinPutRanges : TwinPutFill(x[1], x[2])

SpecTwin == InitTwin /\ [][NextTwin]_vars

\* C33: what a caller observes does not depend on the hash function. Two
\* tables built from the same capacity hint with two deterministic hash
\* functions and driven by the same calls return the same from every call
\* (found flag, value, isNew flag, error; both calls return) and have the
\* same Size after it.
C33_HashFuncIndependence ==
    /\ twin.ret = [ok |-> last.ok, v |-> last.v, isNew |-> last.isNew,
                   err |-> last.err, hang |-> FALSE]
    /\ twin.t.size = size

\* C33: a Get found its key in both tables, which hold tombstones and
\* differ in their slots
C33_Witness ==
    /\ last.op = "get"
    /\ last.ok
    /\ twin.ret.ok
    /\ tombstones > 0
    /\ groups # twin.t.groups
    /\ hashFunc # twin.t.hashFunc

====
